---- MODULE Spec2Model ----
(***************************************************************************)
(* Fabric of Space: the three-stage pipeline (Physics -> JFA -> Analysis)  *)
(* of HybridVoronoiSystem / PureGPUSystem, modelled from the sources.      *)
(*                                                                         *)
(* Numbers.  Positions, centroids and deltas are fixed-point integers in   *)
(* thousandths (900 is 0.9, 100 is 0.1).  Flux values are fixed-point in   *)
(* thousandths too (1000 is 1.0).  Every product stays below 2^31.         *)
(***************************************************************************)
EXTENDS Integers, Sequences, FiniteSets, TLC

(***************************************************************************)
(* Bounds of the model.                                                    *)
(***************************************************************************)
NumSeeds == 2
MaxAcute == 3
MaxFrames == 2

Seeds == 0..(NumSeeds - 1)
AcuteCounts == 0..MaxAcute

(***************************************************************************)
(* Program constants.                                                      *)
(***************************************************************************)
KHundredths == 1
DampingTenths == 7
MaxDeltaMilli == 100
BoundMilli == 900

ModeNames == {"balanced", "growthOnly", "shrinkOnly", "inverse"}
\* physicsSettings the runs draw from.  A delta is held in thousandths, so the
\* growth rates are ones that move a generator by at least a thousandth.
Thresholds == {2}
GrowthRates == {10, 50}
Backends == {"cpu", "gpu"}

(***************************************************************************)
(* Arithmetic helpers.                                                     *)
(***************************************************************************)
Abs(a) == IF a < 0 THEN -a ELSE a

Sgn(a) == IF a > 0 THEN 1 ELSE IF a < 0 THEN -1 ELSE 0

Max2(a, b) == IF a >= b THEN a ELSE b

Min2(a, b) == IF a <= b THEN a ELSE b

\* a / b rounded to the nearest integer, symmetric about 0 (b > 0)
RDiv(a, b) == Sgn(a) * ((2 * Abs(a) + b) \div (2 * b))

RECURSIVE SqrtIter(_, _, _)
SqrtIter(n, lo, hi) ==
    IF lo >= hi THEN lo
    ELSE LET mid == (lo + hi + 1) \div 2
         IN IF mid * mid <= n THEN SqrtIter(n, mid, hi)
            ELSE SqrtIter(n, lo, mid - 1)

\* Math.sqrt on non-negative integers below 2^31, rounded down
ISqrt(n) == SqrtIter(n, 0, 46340)

RECURSIVE MaxOver(_, _)
MaxOver(f, S) ==
    IF S = {} THEN 0
    ELSE LET i == CHOOSE j \in S : TRUE
         IN Max2(f[i], MaxOver(f, S \ {i}))

Dot(u, v) == u[1] * v[1] + u[2] * v[2] + u[3] * v[3]

VSub(u, v) == <<u[1] - v[1], u[2] - v[2], u[3] - v[3]>>

VAdd(u, v) == <<u[1] + v[1], u[2] + v[2], u[3] + v[3]>>

\* length of a vector of thousandths, in thousandths
VLen(u) == ISqrt(Dot(u, u))

(***************************************************************************)
(* PhysicsEngine (CPU) and the PhysicsCompute shader (GPU).                *)
(***************************************************************************)

\* CpuFluxDecision with the shrinkOnly case growing instead of shrinking
CpuFluxDecisionShrinkOnlyGrows(score, threshold, mode) ==
    IF mode = "inverse" /\ score < threshold
      THEN [shouldGrow |-> TRUE, fluxMagnitude |-> threshold - score]
    ELSE IF mode = "balanced" /\ score < threshold
      THEN [shouldGrow |-> FALSE, fluxMagnitude |-> threshold - score]
    ELSE IF score > threshold
      THEN [shouldGrow |-> mode # "inverse", fluxMagnitude |-> score - threshold]
    ELSE [shouldGrow |-> FALSE, fluxMagnitude |-> 0]

\* the switch of applyGrowthAlgorithm: shouldGrow and fluxMagnitude
CpuFluxDecision(score, threshold, mode) ==
    CASE mode = "balanced" ->
           IF score > threshold
             THEN [shouldGrow |-> TRUE, fluxMagnitude |-> score - threshold]
           ELSE IF score < threshold
             THEN [shouldGrow |-> FALSE, fluxMagnitude |-> threshold - score]
           ELSE [shouldGrow |-> FALSE, fluxMagnitude |-> 0]
      [] mode = "growthOnly" ->
           IF score > threshold
             THEN [shouldGrow |-> TRUE, fluxMagnitude |-> score - threshold]
           ELSE [shouldGrow |-> FALSE, fluxMagnitude |-> 0]
      [] mode = "shrinkOnly" ->
           IF score > threshold
             THEN [shouldGrow |-> FALSE, fluxMagnitude |-> score - threshold]
           ELSE [shouldGrow |-> FALSE, fluxMagnitude |-> 0]
      [] mode = "inverse" ->
           IF score > threshold
             THEN [shouldGrow |-> FALSE, fluxMagnitude |-> score - threshold]
           ELSE IF score < threshold
             THEN [shouldGrow |-> TRUE, fluxMagnitude |-> threshold - score]
           ELSE [shouldGrow |-> FALSE, fluxMagnitude |-> 0]
      [] OTHER -> [shouldGrow |-> FALSE, fluxMagnitude |-> 0]

\* the mode uniform PhysicsCompute.compute uploads
ModeCode(mode) ==
    IF mode = "balanced" THEN 0
    ELSE IF mode = "growthOnly" THEN 1
    ELSE IF mode = "shrinkOnly" THEN 2
    ELSE 3

\* the if-chain of the physics shader's main: shouldGrow and fluxMagnitude
GpuFluxDecision(score, threshold, modeCode) ==
    IF modeCode = 0 THEN
        IF score > threshold
          THEN [shouldGrow |-> TRUE, fluxMagnitude |-> score - threshold]
        ELSE IF score < threshold
          THEN [shouldGrow |-> FALSE, fluxMagnitude |-> threshold - score]
        ELSE [shouldGrow |-> FALSE, fluxMagnitude |-> 0]
    ELSE IF modeCode = 1 THEN
        IF score > threshold
          THEN [shouldGrow |-> TRUE, fluxMagnitude |-> score - threshold]
        ELSE [shouldGrow |-> FALSE, fluxMagnitude |-> 0]
    ELSE IF modeCode = 2 THEN
        IF score > threshold
          THEN [shouldGrow |-> FALSE, fluxMagnitude |-> score - threshold]
        ELSE [shouldGrow |-> FALSE, fluxMagnitude |-> 0]
    ELSE IF modeCode = 3 THEN
        IF score > threshold
          THEN [shouldGrow |-> FALSE, fluxMagnitude |-> score - threshold]
        ELSE IF score < threshold
          THEN [shouldGrow |-> TRUE, fluxMagnitude |-> threshold - score]
        ELSE [shouldGrow |-> FALSE, fluxMagnitude |-> 0]
    ELSE [shouldGrow |-> FALSE, fluxMagnitude |-> 0]

\* pow(fluxMagnitude, growthPower) with growthPower = 1.5, in thousandths
Pow15(m) == ISqrt(m * m * m * 1000000)

\* the non-linear growth function: signed flux in thousandths
SignedFlux(d) ==
    IF d.fluxMagnitude > 0
      THEN Pow15(d.fluxMagnitude) * (IF d.shouldGrow THEN 1 ELSE -1)
    ELSE 0

\* the hash offset of PhysicsEngine.calculateCellCentroid for seed index i:
\* hash = (i * 2654435761) % 2147483647, offsets ((hash % 1000) / 1000 - 0.5) * 0.1
\* and so on, in thousandths
CellCentroidOffset(i) ==
    CASE i = 0 -> <<-50, -50, -50>>
      [] i = 1 -> <<-39, 45, 1>>
      [] i = 2 -> <<-27, 40, -49>>
      [] OTHER -> <<-16, 36, 2>>

\* calculateCellCentroid with the offsets all 0: the seed's own position
CellCentroidAtSeed(pos, seedIndex) == pos

calculateCellCentroid(pos, seedIndex) == VAdd(pos, CellCentroidOffset(seedIndex))

\* the offsets of the shader's calculateFallbackCentroid (u32 arithmetic), in
\* thousandths
FallbackOffset(i) ==
    CASE i = 0 -> <<-50, -43, -36>>
      [] i = 1 -> <<50, -43, -36>>
      [] OTHER -> <<50, -43, -37>>

calculateFallbackCentroid(seedIndex, pos) == VAdd(pos, FallbackOffset(seedIndex))

\* the values (Math.random() - 0.5) * 0.01 can take, to the model's resolution
RandomDirs == {<<-5, 0, 5>>, <<0, 0, 0>>, <<3, -2, 1>>}

\* the shader's (hash(index + ...) - 0.5) * 0.01, to the model's resolution
HashDir(i) == IF i = 0 THEN <<-5, 1, 3>> ELSE <<1, -3, 4>>

\* direction / length: a unit vector in thousandths (the length is taken in
\* ten-thousandths to keep the quotient accurate for short vectors)
Normalize(d) ==
    LET len == ISqrt(Dot(d, d) * 100)
    IN <<RDiv(d[1] * 10000, len), RDiv(d[2] * 10000, len), RDiv(d[3] * 10000, len)>>

\* normalizedDir of applyGrowthAlgorithm: length < 1e-6 takes the random branch
CpuDirection(pos, centre, rnd) ==
    LET d == VSub(pos, centre)
    IN IF VLen(d) = 0 THEN rnd ELSE Normalize(d)

\* the centroid the shader uses: the stored one unless it coincides with the seed
GpuCentroid(i, pos, centre) ==
    IF VLen(VSub(pos, centre)) = 0
      THEN calculateFallbackCentroid(i, pos)
    ELSE centre

\* direction of the shader's main
GpuDirection(i, pos, centre) ==
    LET d == VSub(pos, GpuCentroid(i, pos, centre))
    IN IF VLen(d) = 0 THEN HashDir(i) ELSE Normalize(d)

Clamp(v, lo, hi) == Max2(lo, Min2(hi, v))

\* DampedDelta without the clamp to maxDelta
DampedDeltaUnclamped(prevDelta, flux, growthRate) ==
    RDiv(DampingTenths * prevDelta
           + (10 - DampingTenths) * RDiv(KHundredths * flux * growthRate, 100), 10)

\* k * rawFlux * growthRate, damped with the previous delta, clamped to maxDelta
DampedDelta(prevDelta, flux, growthRate) ==
    LET raw == RDiv(KHundredths * flux * growthRate, 100)
        damped == RDiv(DampingTenths * prevDelta + (10 - DampingTenths) * raw, 10)
    IN Clamp(damped, -MaxDeltaMilli, MaxDeltaMilli)

\* Vector3.clampScalar / clamp(newPosition, vec3(-0.9), vec3(0.9))
ClampScalar(v, lo, hi) == <<Clamp(v[1], lo, hi), Clamp(v[2], lo, hi), Clamp(v[3], lo, hi)>>

\* NewPosition without the clamp to the cube
NewPositionUnclamped(pos, dir, delta) ==
    <<pos[1] + RDiv(dir[1] * delta, 1000),
      pos[2] + RDiv(dir[2] * delta, 1000),
      pos[3] + RDiv(dir[3] * delta, 1000)>>

\* position + direction * delta, kept within [-0.9, 0.9]
NewPosition(pos, dir, delta) ==
    ClampScalar(<<pos[1] + RDiv(dir[1] * delta, 1000),
                  pos[2] + RDiv(dir[2] * delta, 1000),
                  pos[3] + RDiv(dir[3] * delta, 1000)>>, -BoundMilli, BoundMilli)

(***************************************************************************)
(* State.  The model has four parts, each with its own variables and its   *)
(* own specification; a specification leaves the other parts idle.         *)
(***************************************************************************)
VARIABLES
    \* the physics stage
    backend,         \* "cpu": PhysicsEngine, "gpu": the PhysicsCompute shader
    settings,        \* physicsSettings: threshold, growthRate, mode
    position,        \* seed.position per generator
    centroid,        \* seed.centroid per generator, as Analysis stored it
    acuteCount,      \* seed.acuteCount per generator
    previousDeltas,  \* previousDeltas per generator
    phase,           \* which stage of the frame runs next
    frame,           \* physics updates done
    obs,             \* what the last physics update did, per generator
    \* the frame pipeline: invocations of update()
    system,            \* which orchestrator, and on which renderer
    simulationRunning, \* this.simulationRunning
    physicsEnabled,    \* this.physicsEnabled
    pc,                \* where each invocation of update() stands
    draining,          \* continuations of suspended invocations are being run
    stageLog,          \* the stages in the order they were run or submitted
    writer,            \* the invocation that last wrote positions, grid, analysis
    reads,             \* per invocation, whose results each of its stages read
    \* the schedule of JFA flood passes
    jfaKind,           \* "JFACompute" (WebGPU) or "GPUVoronoiCompute" (WebGL)
    volumeSize,        \* this.volumeSize
    stepSize,          \* the loop variable stepSize
    passIndex,         \* passes the loop has been through (i of runJFA)
    uniformStepSize,   \* the step size in the uniform buffer / uStepSize
    encodedSteps,      \* the step size written for each pass, in pass order
    executedSteps,     \* the step size each pass read when it ran
    jfaPc,             \* "loop", "submitted" or "done"
    \* one JFA computation on a voxel grid
    floodKind,         \* the shader: "jfaStep" (WGSL) or "glsl" (GLSL main)
    generators,        \* the generators' positions
    grid,              \* the assignment each voxel holds
    gridBefore,        \* the grid as the current pass found it
    pending,           \* invocations of the current pass still to run
    passesLeft,        \* the step sizes of the passes still to run
    floodPc,           \* "init", "pass", "between" or "done"
    firstGrid,         \* the grid the first of two computations ended with
    \* one complete JFA run at the resolution of the scenario
    runKind,           \* "JFACompute" (WebGPU) or "GPUVoronoiCompute" (WebGL)
    runPosition,       \* seed.position of the only generator, in thousandths
    runGrid,           \* the assignment each voxel holds
    runSteps,          \* the step sizes the passes still to run will read
    runPc,             \* "init", "flood" or "done"
    \* the Analysis stage on one voxel grid
    anaKind,           \* "VoronoiAnalyzer", "AnalysisCompute" or "PureGPU"
    anaPositions,      \* seed.position per generator, in thousandths
    anaTexture,        \* the JFA output Analysis is given, or "missing"
    anaSeeds,          \* the generator records where this Analysis keeps them
    anaAccum,          \* the atomic accumulators of the GPU passes
    anaPending,        \* shader invocations of the current pass still to run
    anaJunctions,      \* the cubes the current pass reported as junctions
    anaPasses,         \* Analysis passes done
    anaPc,             \* "idle", "dispatched" or "done"
    \* the centroid accumulators of one generator at full resolution
    centKind,          \* "VoronoiAnalyzer", "AnalysisCompute" or "PureGPU"
    centSize,          \* voxels per axis
    centLo, centHi,    \* the generator owns the voxels with centLo <= x <= centHi
    centNext,          \* the next x whose voxels add to the sums
    centSum,           \* positionSumX as the accumulator holds it, <<high, low>> 16-bit halves
    centTrue,          \* the sum of what was added, <<high, low>>, high unbounded
    centCount,         \* voxelCount
    centCentroid,      \* centroid.x after finalization, in thousandths
    centPc,            \* "summing" or "done"
    \* one session of HybridVoronoiSystem: init, regenerate and update calls
    sesRenderer,       \* "WebGL" or "WebGPU"
    sesConfig,         \* numPoints, settings.volumeResolution, gpuCompute.volumeSize
    sesSettings,       \* settings.physicsSettings
    sesEnabled,        \* this.physicsEnabled
    sesRunning,        \* this.simulationRunning
    sesSeeds,          \* this.seedData: position, acuteCount, centroid per generator
    sesDeltas,         \* physicsEngine.previousDeltas, 0 where the Map has no entry
    sesStats,          \* performanceStats.growingCells and shrinkingCells
    sesOps,            \* calls of regenerate and update so far
    sesLast,           \* the last call: "init", "regenerate" or "update"
    sesObs,            \* what the last call found and did
    \* the physics shader of PureGPUSystem on one generator
    pureSettings,      \* settings.physicsSettings and the deltaTime of update
    pureSeed,          \* seeds[cellId]: position and velocity
    pureCentroid,      \* centroids[cellId]: positionSum and voxelCount
    pureAcute,         \* acuteCounts[cellId]
    purePhase,         \* "analysis" or "physics": the pass of the frame that runs next
    pureFrames,        \* physics passes done
    pureObs            \* what the last physics pass read and decided

physVars == <<backend, settings, position, centroid, acuteCount, previousDeltas,
              phase, frame, obs>>

frameVars == <<system, simulationRunning, physicsEnabled, pc, draining, stageLog,
               writer, reads>>

schedVars == <<jfaKind, volumeSize, stepSize, passIndex, uniformStepSize,
               encodedSteps, executedSteps, jfaPc>>

floodVars == <<floodKind, generators, grid, gridBefore, pending, passesLeft, floodPc,
               firstGrid>>

runVars == <<runKind, runPosition, runGrid, runSteps, runPc>>

anaVars == <<anaKind, anaPositions, anaTexture, anaSeeds, anaAccum, anaPending,
             anaJunctions, anaPasses, anaPc>>

earlyVars == <<physVars, frameVars, schedVars, floodVars>>

\* the parts added after the flood
centVars == <<centKind, centSize, centLo, centHi, centNext, centSum, centTrue, centCount,
              centCentroid, centPc>>

sesVars == <<sesRenderer, sesConfig, sesSettings, sesEnabled, sesRunning, sesSeeds,
             sesDeltas, sesStats, sesOps, sesLast, sesObs>>

pureVars == <<pureSettings, pureSeed, pureCentroid, pureAcute, purePhase, pureFrames,
              pureObs>>

laterVars == <<runVars, anaVars, centVars, sesVars, pureVars>>

notRunVars == <<anaVars, centVars, sesVars, pureVars>>

notAnaVars == <<runVars, centVars, sesVars, pureVars>>

notCentVars == <<runVars, anaVars, sesVars, pureVars>>

notSesVars == <<runVars, anaVars, centVars, pureVars>>

notPureVars == <<runVars, anaVars, centVars, sesVars>>

vars == <<physVars, frameVars, schedVars, floodVars, laterVars>>

\* the parts a specification does not run
PhysicsIdle ==
    /\ backend = "none" /\ settings = <<>> /\ position = <<>> /\ centroid = <<>>
    /\ acuteCount = <<>> /\ previousDeltas = <<>> /\ phase = "none" /\ frame = 0
    /\ obs = <<>>

FrameIdle ==
    /\ system = "none" /\ simulationRunning = FALSE /\ physicsEnabled = FALSE
    /\ pc = <<>> /\ draining = FALSE /\ stageLog = <<>> /\ writer = <<>>
    /\ reads = <<>>

ScheduleIdle ==
    /\ jfaKind = "none" /\ volumeSize = 0 /\ stepSize = 0 /\ passIndex = 0
    /\ uniformStepSize = 0 /\ encodedSteps = <<>> /\ executedSteps = <<>>
    /\ jfaPc = "none"

FloodIdle ==
    /\ floodKind = "none" /\ generators = <<>> /\ grid = <<>> /\ gridBefore = <<>>
    /\ pending = {} /\ passesLeft = <<>> /\ floodPc = "none" /\ firstGrid = <<>>

RunIdle ==
    /\ runKind = "none" /\ runPosition = <<>> /\ runGrid = <<>> /\ runSteps = <<>>
    /\ runPc = "none"

AnalysisIdle ==
    /\ anaKind = "none" /\ anaPositions = <<>> /\ anaTexture = <<>> /\ anaSeeds = <<>>
    /\ anaAccum = <<>> /\ anaPending = {} /\ anaJunctions = {} /\ anaPasses = 0
    /\ anaPc = "none"

EarlyIdle == PhysicsIdle /\ FrameIdle /\ ScheduleIdle /\ FloodIdle

CentroidIdle ==
    /\ centKind = "none" /\ centSize = 0 /\ centLo = 0 /\ centHi = 0 /\ centNext = 0
    /\ centSum = <<>> /\ centTrue = <<>> /\ centCount = 0 /\ centCentroid = 0
    /\ centPc = "none"

SessionIdle ==
    /\ sesRenderer = "none" /\ sesConfig = <<>> /\ sesSettings = <<>>
    /\ sesEnabled = FALSE /\ sesRunning = FALSE /\ sesSeeds = <<>> /\ sesDeltas = <<>>
    /\ sesStats = <<>> /\ sesOps = 0 /\ sesLast = "none" /\ sesObs = <<>>

PureIdle ==
    /\ pureSettings = <<>> /\ pureSeed = <<>> /\ pureCentroid = <<>> /\ pureAcute = 0
    /\ purePhase = "none" /\ pureFrames = 0 /\ pureObs = <<>>

LaterIdle == RunIdle /\ AnalysisIdle /\ CentroidIdle /\ SessionIdle /\ PureIdle

NotRunIdle == AnalysisIdle /\ CentroidIdle /\ SessionIdle /\ PureIdle

NotAnalysisIdle == RunIdle /\ CentroidIdle /\ SessionIdle /\ PureIdle

NotCentroidIdle == RunIdle /\ AnalysisIdle /\ SessionIdle /\ PureIdle

NotSessionIdle == RunIdle /\ AnalysisIdle /\ CentroidIdle /\ PureIdle

NotPureIdle == RunIdle /\ AnalysisIdle /\ CentroidIdle /\ SessionIdle

NoObs == [flux |-> 0, delta |-> 0, dir |-> <<0, 0, 0>>, from |-> <<0, 0, 0>>,
          prev |-> 0, centre |-> <<0, 0, 0>>, stored |-> <<0, 0, 0>>, score |-> 0,
          moved |-> FALSE]

\* rawFlux of applyGrowthAlgorithm before normalisation
CpuRawFlux(i) ==
    SignedFlux(CpuFluxDecision(acuteCount[i], settings.threshold, settings.mode))

\* rawFlux after the division by maxFlux
CpuNormalizedFlux(i) ==
    LET maxFlux == MaxOver([j \in Seeds |-> Abs(CpuRawFlux(j))], Seeds)
    IN IF maxFlux > 0 THEN RDiv(CpuRawFlux(i) * 1000, maxFlux) ELSE CpuRawFlux(i)

\* rawFlux of the shader's main
GpuRawFlux(i) ==
    SignedFlux(GpuFluxDecision(acuteCount[i], settings.threshold,
                               ModeCode(settings.mode)))

\* CpuSeedStep without the "if no flux, skip" test
CpuSeedStepNoSkip(i, rnd) ==
    LET centre == calculateCellCentroid(position[i], i)
    IN [flux |-> CpuNormalizedFlux(i),
        delta |-> DampedDelta(previousDeltas[i], CpuNormalizedFlux(i), settings.growthRate),
        dir |-> CpuDirection(position[i], centre, rnd), from |-> position[i],
        prev |-> previousDeltas[i], centre |-> centre, stored |-> centroid[i],
        score |-> acuteCount[i], moved |-> TRUE]

\* one generator's pass through the position loop of applyGrowthAlgorithm
CpuSeedStep(i, rnd) ==
    LET flux == CpuNormalizedFlux(i)
        centre == calculateCellCentroid(position[i], i)
        dir == CpuDirection(position[i], centre, rnd)
        delta == DampedDelta(previousDeltas[i], flux, settings.growthRate)
    IN IF flux = 0
         THEN [NoObs EXCEPT !.from = position[i], !.prev = previousDeltas[i],
                            !.stored = centroid[i], !.score = acuteCount[i]]
       ELSE [flux |-> flux, delta |-> delta, dir |-> dir, from |-> position[i],
             prev |-> previousDeltas[i], centre |-> centre, stored |-> centroid[i],
             score |-> acuteCount[i], moved |-> TRUE]

\* one invocation of the shader's main
GpuSeedStep(i) ==
    LET flux == GpuRawFlux(i)
        centre == GpuCentroid(i, position[i], centroid[i])
        dir == GpuDirection(i, position[i], centroid[i])
        delta == DampedDelta(previousDeltas[i], flux, settings.growthRate)
    IN IF flux = 0
         THEN [NoObs EXCEPT !.from = position[i], !.prev = previousDeltas[i],
                            !.stored = centroid[i], !.score = acuteCount[i]]
       ELSE [flux |-> flux, delta |-> delta, dir |-> dir, from |-> position[i],
             prev |-> previousDeltas[i], centre |-> centre, stored |-> centroid[i],
             score |-> acuteCount[i], moved |-> TRUE]

\* the writes of one physics update, given what each generator's step computed
ApplySteps(step) ==
    /\ position' = [i \in Seeds |->
                      IF step[i].moved
                        THEN NewPosition(position[i], step[i].dir, step[i].delta)
                      ELSE position[i]]
    /\ previousDeltas' = [i \in Seeds |->
                            IF step[i].moved THEN step[i].delta
                            ELSE previousDeltas[i]]
    /\ obs' = step

\* PhysicsEngine.update: applyGrowthAlgorithm over all seeds
PhysicsEngineUpdate ==
    /\ backend = "cpu"
    /\ phase = "physics"
    /\ frame < MaxFrames
    /\ \E rnd \in RandomDirs : ApplySteps([i \in Seeds |-> CpuSeedStep(i, rnd)])
    /\ phase' = "analysis"
    /\ frame' = frame + 1
    /\ UNCHANGED <<backend, settings, centroid, acuteCount>>
    /\ UNCHANGED <<frameVars, schedVars, floodVars, laterVars>>

\* PhysicsCompute: one dispatch of the shader, one invocation per seed
PhysicsComputeDispatch ==
    /\ backend = "gpu"
    /\ phase = "physics"
    /\ frame < MaxFrames
    /\ ApplySteps([i \in Seeds |-> GpuSeedStep(i)])
    /\ phase' = "analysis"
    /\ frame' = frame + 1
    /\ UNCHANGED <<backend, settings, centroid, acuteCount>>
    /\ UNCHANGED <<frameVars, schedVars, floodVars, laterVars>>

\* acute counts an analysis pass can report: count c for generator 0, then s more
\* for each next generator
AcuteProfile(c, s) == [i \in Seeds |-> (c + s * i) % (MaxAcute + 1)]

\* the centroid an analysis pass stores for a cell that owns voxels
CellCentroid(i) == <<-250 + 500 * (i % 2), 125 * i, 250>>

CentroidSources == {"own", "cell"}

\* the results JFA + Analysis leave in seedData for the next frame's physics
AnalysisResults(c, s, src) ==
    /\ phase = "analysis"
    /\ frame < MaxFrames
    /\ acuteCount' = AcuteProfile(c, s)
    /\ centroid' = [i \in Seeds |-> IF src = "own" THEN position[i] ELSE CellCentroid(i)]
    /\ phase' = "physics"
    /\ UNCHANGED <<backend, settings, position, previousDeltas, frame, obs>>
    /\ UNCHANGED <<frameVars, schedVars, floodVars, laterVars>>

InitLayouts == {"corner", "interior"}

\* (Math.random() - 0.5) * 1.8 per component: two layouts of generateInitialSeeds
InitialPosition(layout, i) ==
    IF layout = "corner"
      THEN (IF i % 2 = 0 THEN <<880, 880, 880>> ELSE <<-899, -880, 890>>)
    ELSE <<100 * i, -200, 300>>

PhysicsInit ==
    /\ backend \in Backends
    /\ settings \in [threshold : Thresholds, growthRate : GrowthRates, mode : ModeNames]
    /\ \E layout \in InitLayouts :
          /\ position = [i \in Seeds |-> InitialPosition(layout, i)]
          /\ centroid = [i \in Seeds |-> InitialPosition(layout, i)]
    /\ acuteCount = [i \in Seeds |-> 0]
    /\ previousDeltas = [i \in Seeds |-> 0]
    /\ phase = "physics"
    /\ frame = 0
    /\ obs = [i \in Seeds |-> NoObs]
    /\ FrameIdle /\ ScheduleIdle /\ FloodIdle /\ LaterIdle

PhysicsNext ==
    \/ PhysicsEngineUpdate
    \/ PhysicsComputeDispatch
    \/ \E c \in AcuteCounts, s \in AcuteCounts, src \in CentroidSources :
          AnalysisResults(c, s, src)

SpecPhysics == PhysicsInit /\ [][PhysicsNext]_vars

(***************************************************************************)
(* Properties of the physics stage.                                        *)
(***************************************************************************)

\* the mode table: when a generator grows
TableGrow(score, threshold, mode) ==
    \/ mode \in {"balanced", "growthOnly"} /\ score > threshold
    \/ mode = "inverse" /\ score < threshold

\* the mode table: when a generator shrinks
TableShrink(score, threshold, mode) ==
    \/ mode = "balanced" /\ score < threshold
    \/ mode \in {"shrinkOnly", "inverse"} /\ score > threshold

C4_PositionsInBounds ==
    \A i \in Seeds : \A c \in 1..3 : Abs(position[i][c]) <= BoundMilli

\* a physics update whose unclamped new position left the cube
C4_Witness ==
    /\ frame > 0
    /\ \E i \in Seeds : \E c \in 1..3 :
          /\ obs[i].moved
          /\ Abs(obs[i].from[c] + RDiv(obs[i].dir[c] * obs[i].delta, 1000)) > BoundMilli
          /\ Abs(position[i][c]) = BoundMilli

\* C5: when every generator's acuteCount equals the threshold, the physics update
\* computes rawFlux 0 for every generator and moves none of them.
C5_FixedPoint ==
    (frame > 0 /\ \A i \in Seeds : obs[i].score = settings.threshold) =>
      \A i \in Seeds : obs[i].flux = 0 /\ position[i] = obs[i].from

\* a physics update at the threshold with momentum stored from an earlier frame
C5_Witness ==
    /\ frame > 1
    /\ \A i \in Seeds : obs[i].score = settings.threshold
    /\ \E i \in Seeds : obs[i].prev # 0

\* the displacement of generator i in the last physics update
Displacement(i) == VSub(position[i], obs[i].from)

\* C6 as claimed: a generator that grows is displaced away from the centroid
\* Analysis stored for it, one that shrinks toward it, whatever the previous delta.
C6_GrowAwayShrinkToward ==
    frame > 0 =>
      \A i \in Seeds :
        /\ obs[i].flux > 0 => Dot(Displacement(i), VSub(obs[i].from, obs[i].stored)) >= 0
        /\ obs[i].flux < 0 => Dot(Displacement(i), VSub(obs[i].from, obs[i].stored)) <= 0

\* C7: a generator with non-zero flux gets delta = clamp(damping * previousDelta +
\* (1 - damping) * k * rawFlux * growthRate, -maxDelta, maxDelta), that delta is
\* what is stored as its previousDelta and what moves it, and no stored
\* previousDelta exceeds maxDelta in magnitude.
C7_DampedClampedDelta ==
    /\ \A i \in Seeds : Abs(previousDeltas[i]) <= MaxDeltaMilli
    /\ frame > 0 =>
         \A i \in Seeds :
           obs[i].flux # 0 =>
             /\ obs[i].delta =
                  Clamp(RDiv(7 * obs[i].prev
                               + 3 * RDiv(obs[i].flux * settings.growthRate, 100), 10),
                        -100, 100)
             /\ previousDeltas[i] = obs[i].delta
             /\ position[i] = ClampScalar(
                    VAdd(obs[i].from,
                         <<RDiv(obs[i].dir[1] * obs[i].delta, 1000),
                           RDiv(obs[i].dir[2] * obs[i].delta, 1000),
                           RDiv(obs[i].dir[3] * obs[i].delta, 1000)>>), -900, 900)

\* a physics update whose damped delta exceeded maxDelta and was clamped
C7_Witness ==
    /\ frame > 0
    /\ \E i \in Seeds :
          /\ obs[i].flux # 0
          /\ Abs(RDiv(7 * obs[i].prev
                        + 3 * RDiv(obs[i].flux * settings.growthRate, 100), 10)) > 100
          /\ Abs(previousDeltas[i]) = 100

\* the direction the last physics update gave generator i, had Math.random()
\* returned rnd in the branch that draws it
UpdateDirection(i, rnd) ==
    IF backend = "cpu"
      THEN CpuDirection(obs[i].from, calculateCellCentroid(obs[i].from, i), rnd)
    ELSE GpuDirection(i, obs[i].from, obs[i].stored)

\* the same direction for a generator with the same index at the origin
DirectionOfIndex(i, rnd) ==
    IF backend = "cpu"
      THEN CpuDirection(<<0, 0, 0>>, calculateCellCentroid(<<0, 0, 0>>, i), rnd)
    ELSE GpuDirection(i, <<0, 0, 0>>, <<0, 0, 0>>)

C26_DirectionFromStoredCentroid ==
    frame > 0 =>
      \A i \in Seeds :
        (obs[i].flux # 0 /\ VLen(VSub(obs[i].from, obs[i].stored)) # 0) =>
          obs[i].dir = Normalize(VSub(obs[i].from, obs[i].stored))

(***************************************************************************)
(* The frame pipeline: HybridVoronoiSystem.update and PureGPUSystem.update *)
(* as invocations that may be started while an earlier one is suspended.   *)
(* A stage is logged when it runs (CPU) or is submitted to the GPU queue,  *)
(* which runs submissions in order.                                        *)
(***************************************************************************)
MaxUpdates == 4

Invocations == 1..MaxUpdates

Systems == {"HybridWebGL", "HybridWebGPU", "PureGPU"}

\* -1: the stage did not run or did not read the value
NoReads == [ran |-> FALSE, acuteCount |-> -1, centroid |-> -1, positions |-> -1,
            grid |-> -1]

Suspended(f) == pc[f] \in {"awaitPhysics", "awaitJfa"}

\* update() is called for the f-th time, from a task or from synchronous code
CanStart(f) ==
    /\ pc[f] = "idle"
    /\ \A g \in Invocations : g < f => pc[g] # "idle"
    /\ ~draining

\* a continuation runs: promise reactions run first-in first-out, and no task
\* runs until the reaction queue is empty
CanResume(f) ==
    /\ Suspended(f)
    /\ \A g \in Invocations : g < f => ~Suspended(g)

Resumed(f, to) ==
    /\ pc' = [pc EXCEPT ![f] = to]
    /\ draining' = (\E g \in Invocations : g # f /\ Suspended(g))

Stage(f, name) == [update |-> f, stage |-> name]

\* HybridVoronoiSystem.update on the WebGL renderer: no await is reached, the
\* body runs to its end.  PhysicsEngine.update reads seed.acuteCount and takes
\* its centroid from calculateCellCentroid, never from seed.centroid.
HybridUpdateWebGL(f) ==
    /\ system = "HybridWebGL"
    /\ CanStart(f)
    /\ IF simulationRunning /\ physicsEnabled
         THEN /\ stageLog' = stageLog \o <<Stage(f, "physics"), Stage(f, "jfa"),
                                           Stage(f, "analysis")>>
              /\ reads' = [reads EXCEPT ![f] =
                             [ran |-> TRUE, acuteCount |-> writer.analysis,
                              centroid |-> -1, positions |-> f, grid |-> f]]
              /\ writer' = [positions |-> f, grid |-> f, analysis |-> f]
       ELSE UNCHANGED <<stageLog, reads, writer>>
    /\ pc' = [pc EXCEPT ![f] = "done"]
    /\ UNCHANGED <<system, simulationRunning, physicsEnabled, draining>>
    /\ UNCHANGED <<physVars, schedVars, floodVars, laterVars>>

\* HybridVoronoiSystem.update on the WebGPU renderer, up to its first await:
\* physicsCompute.compute(seedData, settings, deltaTime) calls clearStatistics,
\* whose writeBuffer gets the statisticsBuffer no one created, and rejects
HybridUpdateWebGPU(f) ==
    /\ system = "HybridWebGPU"
    /\ CanStart(f)
    /\ IF simulationRunning /\ physicsEnabled
         THEN /\ pc' = [pc EXCEPT ![f] = "awaitPhysics"]
              /\ reads' = [reads EXCEPT ![f] = [NoReads EXCEPT !.ran = TRUE]]
       ELSE /\ pc' = [pc EXCEPT ![f] = "done"]
            /\ UNCHANGED reads
    /\ UNCHANGED <<system, simulationRunning, physicsEnabled, draining, stageLog,
                   writer>>
    /\ UNCHANGED <<physVars, schedVars, floodVars, laterVars>>

\* the rejection reaches the catch of update: the frame ends with no stage run
HybridUpdateCatch(f) ==
    /\ system = "HybridWebGPU"
    /\ pc[f] = "awaitPhysics"
    /\ CanResume(f)
    /\ Resumed(f, "failed")
    /\ UNCHANGED <<system, simulationRunning, physicsEnabled, stageLog, writer, reads>>
    /\ UNCHANGED <<physVars, schedVars, floodVars, laterVars>>

\* PureGPUSystem.update up to its await: computeWithBuffer has submitted the
\* JFA passes, which read the seed buffer as the last physics pass left it
PureGPUUpdate(f) ==
    /\ system = "PureGPU"
    /\ CanStart(f)
    /\ IF simulationRunning
         THEN /\ stageLog' = Append(stageLog, Stage(f, "jfa"))
              /\ reads' = [reads EXCEPT ![f] =
                             [NoReads EXCEPT !.ran = TRUE,
                                             !.positions = writer.positions]]
              /\ writer' = [writer EXCEPT !.grid = f]
              /\ pc' = [pc EXCEPT ![f] = "awaitJfa"]
       ELSE /\ pc' = [pc EXCEPT ![f] = "done"]
            /\ UNCHANGED <<stageLog, reads, writer>>
    /\ UNCHANGED <<system, simulationRunning, physicsEnabled, draining>>
    /\ UNCHANGED <<physVars, schedVars, floodVars, laterVars>>

\* PureGPUSystem.update after its await: analysis, centroid finalization and
\* physics are encoded and submitted together
PureGPUUpdateResume(f) ==
    /\ system = "PureGPU"
    /\ pc[f] = "awaitJfa"
    /\ CanResume(f)
    /\ stageLog' = stageLog \o <<Stage(f, "analysis"), Stage(f, "physics")>>
    /\ reads' = [reads EXCEPT ![f].grid = writer.grid, ![f].acuteCount = f,
                              ![f].centroid = f]
    /\ writer' = [writer EXCEPT !.analysis = f, !.positions = f]
    /\ Resumed(f, "done")
    /\ UNCHANGED <<system, simulationRunning, physicsEnabled>>
    /\ UNCHANGED <<physVars, schedVars, floodVars, laterVars>>

\* HybridVoronoiSystem.init reaching its auto-start, startPhysics, regenerate;
\* PureGPUSystem.start
StartSimulation ==
    /\ ~draining
    /\ ~simulationRunning
    /\ simulationRunning' = TRUE
    /\ UNCHANGED <<system, physicsEnabled, pc, draining, stageLog, writer, reads>>
    /\ UNCHANGED <<physVars, schedVars, floodVars, laterVars>>

\* PureGPUSystem.stop
StopSimulation ==
    /\ system = "PureGPU"
    /\ ~draining
    /\ simulationRunning
    /\ simulationRunning' = FALSE
    /\ UNCHANGED <<system, physicsEnabled, pc, draining, stageLog, writer, reads>>
    /\ UNCHANGED <<physVars, schedVars, floodVars, laterVars>>

\* HybridVoronoiSystem.setPhysicsEnabled
SetPhysicsEnabled(enabled) ==
    /\ system \in {"HybridWebGL", "HybridWebGPU"}
    /\ ~draining
    /\ physicsEnabled # enabled
    /\ physicsEnabled' = enabled
    /\ UNCHANGED <<system, simulationRunning, pc, draining, stageLog, writer, reads>>
    /\ UNCHANGED <<physVars, schedVars, floodVars, laterVars>>

\* the constructors: simulationRunning false, physicsEnabled true
FrameInit ==
    /\ system \in Systems
    /\ simulationRunning = FALSE
    /\ physicsEnabled = TRUE
    /\ pc = [f \in Invocations |-> "idle"]
    /\ draining = FALSE
    /\ stageLog = <<>>
    /\ writer = [positions |-> 0, grid |-> 0, analysis |-> 0]
    /\ reads = [f \in Invocations |-> NoReads]
    /\ PhysicsIdle /\ ScheduleIdle /\ FloodIdle /\ LaterIdle

FrameNext ==
    \/ \E f \in Invocations : HybridUpdateWebGL(f)
    \/ \E f \in Invocations : HybridUpdateWebGPU(f)
    \/ \E f \in Invocations : HybridUpdateCatch(f)
    \/ \E f \in Invocations : PureGPUUpdate(f)
    \/ \E f \in Invocations : PureGPUUpdateResume(f)
    \/ StartSimulation
    \/ StopSimulation
    \/ \E enabled \in BOOLEAN : SetPhysicsEnabled(enabled)

SpecFrame == FrameInit /\ [][FrameNext]_vars

(***************************************************************************)
(* Properties of the frame pipeline.                                       *)
(***************************************************************************)

\* the stages logged for invocation f, in order
StagesOf(f) ==
    LET own == SelectSeq(stageLog, LAMBDA e : e.update = f)
    IN [k \in 1..Len(own) |-> own[k].stage]

\* the frame before f: the last earlier invocation that ran the pipeline, 0 if none
PrevFrame(f) ==
    LET earlier == {g \in Invocations : g < f /\ reads[g].ran}
    IN IF earlier = {} THEN 0 ELSE CHOOSE g \in earlier : \A h \in earlier : h <= g

\* C2 as claimed: a finished frame of HybridVoronoiSystem.update, entered with the
\* simulation running and physics enabled, has run Physics, then JFA, then
\* Analysis, and its Physics read the acuteCount and the centroid that the
\* Analysis of the frame before wrote.
C2_StagesInOrderOnLastAnalysis ==
    \A f \in Invocations :
      (/\ system \in {"HybridWebGL", "HybridWebGPU"}
       /\ pc[f] \in {"done", "failed"}
       /\ reads[f].ran) =>
        /\ StagesOf(f) = <<"physics", "jfa", "analysis">>
        /\ reads[f].acuteCount = PrevFrame(f)
        /\ reads[f].centroid = PrevFrame(f)

\* C3 as claimed: whatever the interleaving of update() invocations, no stage of
\* one frame runs between two stages of another frame.
C3_FramesDoNotInterleave ==
    \A a, b, c \in 1..Len(stageLog) :
      (a < b /\ b < c /\ stageLog[a].update = stageLog[c].update) =>
        stageLog[b].update = stageLog[a].update

(***************************************************************************)
(* The schedule of JFA flood passes: JFACompute.runJFAPasses (WebGPU) and  *)
(* GPUVoronoiCompute.runJFA (WebGL).                                       *)
(***************************************************************************)
MaxVolumeSize == 64

VolumeSizes == 1..MaxVolumeSize

JfaKinds == {"JFACompute", "GPUVoronoiCompute"}

RECURSIVE Pow2(_)
Pow2(p) == IF p <= 0 THEN 1 ELSE 2 * Pow2(p - 1)

RECURSIVE CeilLog2From(_, _)
CeilLog2From(n, p) == IF Pow2(p) >= n THEN p ELSE CeilLog2From(n, p + 1)

\* Math.ceil(Math.log2(n)) for n >= 1
CeilLog2(n) == CeilLog2From(n, 0)

\* JFACompute with the first step the whole size instead of half of it
maxStepSizeWhole(size) == size

\* maxStepSize of runJFAPasses
maxStepSize(size) == size \div 2

\* the first step size of runJFA, Math.pow(2, numPasses - 1); with no pass
\* to run it is 0.5 and never used, held as 0
firstStepSize(size) == IF CeilLog2(size) = 0 THEN 0 ELSE Pow2(CeilLog2(size) - 1)

\* construction, setResolution(size), then the entry of the pass loop: the
\* uniform buffer holds the step size 1 that updateSeedBuffer / computeWithBuffer
\* wrote, uStepSize holds its initial 0
ScheduleInit ==
    /\ jfaKind \in JfaKinds
    /\ volumeSize \in VolumeSizes
    /\ stepSize = (IF jfaKind = "JFACompute" THEN maxStepSize(volumeSize)
                   ELSE firstStepSize(volumeSize))
    /\ passIndex = 0
    /\ uniformStepSize = (IF jfaKind = "JFACompute" THEN 1 ELSE 0)
    /\ encodedSteps = <<>>
    /\ executedSteps = <<>>
    /\ jfaPc = "loop"
    /\ PhysicsIdle /\ FrameIdle /\ FloodIdle /\ LaterIdle

\* one turn of the loop of runJFAPasses: queue.writeBuffer puts the step size in
\* the uniform buffer at once, the pass is only encoded
EncodeJfaPass ==
    /\ jfaKind = "JFACompute"
    /\ jfaPc = "loop"
    /\ stepSize >= 1
    /\ uniformStepSize' = stepSize
    /\ encodedSteps' = Append(encodedSteps, stepSize)
    /\ stepSize' = stepSize \div 2
    /\ passIndex' = passIndex + 1
    /\ UNCHANGED <<jfaKind, volumeSize, executedSteps, jfaPc>>
    /\ UNCHANGED <<physVars, frameVars, floodVars, laterVars>>

\* the loop of runJFAPasses ends; queue.submit hands the encoded passes over
SubmitJfaPasses ==
    /\ jfaKind = "JFACompute"
    /\ jfaPc = "loop"
    /\ stepSize < 1
    /\ jfaPc' = "submitted"
    /\ UNCHANGED <<jfaKind, volumeSize, stepSize, passIndex, uniformStepSize,
                   encodedSteps, executedSteps>>
    /\ UNCHANGED <<physVars, frameVars, floodVars, laterVars>>

\* the queue runs the next submitted pass: jfaStep reads uniforms.stepSize
ExecuteJfaPass ==
    /\ jfaKind = "JFACompute"
    /\ jfaPc = "submitted"
    /\ Len(executedSteps) < Len(encodedSteps)
    /\ executedSteps' = Append(executedSteps, uniformStepSize)
    /\ UNCHANGED <<jfaKind, volumeSize, stepSize, passIndex, uniformStepSize,
                   encodedSteps, jfaPc>>
    /\ UNCHANGED <<physVars, frameVars, floodVars, laterVars>>

\* the queue has run every submitted pass
JfaPassesDone ==
    /\ jfaKind = "JFACompute"
    /\ jfaPc = "submitted"
    /\ Len(executedSteps) = Len(encodedSteps)
    /\ jfaPc' = "done"
    /\ UNCHANGED <<jfaKind, volumeSize, stepSize, passIndex, uniformStepSize,
                   encodedSteps, executedSteps>>
    /\ UNCHANGED <<physVars, frameVars, floodVars, laterVars>>

\* one turn of the loop of runJFA: uStepSize is set and gpuCompute.compute()
\* renders the pass at once
RunJfaPass ==
    /\ jfaKind = "GPUVoronoiCompute"
    /\ jfaPc = "loop"
    /\ passIndex < CeilLog2(volumeSize)
    /\ uniformStepSize' = stepSize
    /\ encodedSteps' = Append(encodedSteps, stepSize)
    /\ executedSteps' = Append(executedSteps, stepSize)
    /\ stepSize' = Max2(1, stepSize \div 2)
    /\ passIndex' = passIndex + 1
    /\ UNCHANGED <<jfaKind, volumeSize, jfaPc>>
    /\ UNCHANGED <<physVars, frameVars, floodVars, laterVars>>

\* the loop of runJFA ends
RunJfaDone ==
    /\ jfaKind = "GPUVoronoiCompute"
    /\ jfaPc = "loop"
    /\ passIndex >= CeilLog2(volumeSize)
    /\ jfaPc' = "done"
    /\ UNCHANGED <<jfaKind, volumeSize, stepSize, passIndex, uniformStepSize,
                   encodedSteps, executedSteps>>
    /\ UNCHANGED <<physVars, frameVars, floodVars, laterVars>>

ScheduleNext ==
    \/ EncodeJfaPass
    \/ SubmitJfaPasses
    \/ ExecuteJfaPass
    \/ JfaPassesDone
    \/ RunJfaPass
    \/ RunJfaDone

SpecSchedule == ScheduleInit /\ [][ScheduleNext]_vars

(***************************************************************************)
(* Properties of the pass schedule.                                        *)
(***************************************************************************)

IsPowerOfTwo(n) == Pow2(CeilLog2(n)) = n

\* the schedule starts at floor(size / 2), halves each pass and ends with 1
HalvesFromHalfSize(steps, size) ==
    /\ \A k \in 1..Len(steps) :
          steps[k] = (IF k = 1 THEN size \div 2 ELSE steps[k - 1] \div 2)
    /\ Len(steps) > 0 => steps[Len(steps)] = 1

\* C8 as claimed: for every positive size the loop ends having scheduled exactly
\* ceil(log2(size)) passes whose step sizes start at floor(size / 2), halve each
\* pass and end with 1.
C8_ScheduleForEverySize ==
    jfaPc = "done" =>
      /\ Len(encodedSteps) = CeilLog2(volumeSize)
      /\ HalvesFromHalfSize(encodedSteps, volumeSize)

\* C8, corrected: the loop never schedules more than ceil(log2(size)) passes, so
\* it ends for every positive size; when size is a power of two it ends having
\* scheduled exactly log2(size) passes with step sizes size / 2, halving, down to
\* 1; for any other size JFACompute has scheduled fewer than ceil(log2(size))
\* passes and GPUVoronoiCompute has started above floor(size / 2).
C8_PowerOfTwoSchedule ==
    /\ Len(encodedSteps) <= CeilLog2(volumeSize)
    /\ jfaPc = "done" =>
         IF IsPowerOfTwo(volumeSize)
           THEN /\ Len(encodedSteps) = CeilLog2(volumeSize)
                /\ HalvesFromHalfSize(encodedSteps, volumeSize)
         ELSE IF jfaKind = "JFACompute"
           THEN /\ Len(encodedSteps) = CeilLog2(volumeSize) - 1
                /\ HalvesFromHalfSize(encodedSteps, volumeSize)
         ELSE /\ Len(encodedSteps) = CeilLog2(volumeSize)
              /\ encodedSteps[1] > volumeSize \div 2

\* a finished schedule of several passes for a power-of-two size
C8_Witness ==
    /\ jfaPc = "done"
    /\ IsPowerOfTwo(volumeSize)
    /\ Len(encodedSteps) >= 3
    /\ encodedSteps[Len(encodedSteps)] = 1

\* C9 as claimed: every pass JFACompute dispatched ran with the step size that
\* was written for it.
C9_PassRunsWithItsStep ==
    jfaKind = "JFACompute" =>
      \A k \in 1..Len(executedSteps) : executedSteps[k] = encodedSteps[k]

(***************************************************************************)
(* One JFA computation on a voxel grid: the WGSL shader of JFACompute      *)
(* (initSeeds, jfaStep) and the GLSL shader of GPUVoronoiCompute.          *)
(*                                                                         *)
(* A voxel holds a generator index or NoSeed.  Coordinates of the unit     *)
(* cube are integers in units of 1 / (2 * GridSize * (GridSize - 1)), in   *)
(* which both shaders' voxel positions are whole.  All generators have     *)
(* the same weight (1.0 in the WGSL buffer, 0.0 in the seed texture), so   *)
(* weighted distances compare as squared distances do.                     *)
(***************************************************************************)
GridSize == 2

Cells == 0..(GridSize - 1)

Voxels == Cells \X Cells \X Cells

\* 4294967295u in the WGSL shader, w = 0.0 in the GLSL texture
NoSeed == -1

FloodKinds == {"jfaStep", "glsl"}

\* generator positions in quarters of the cube's side
GeneratorLayouts ==
    { << <<1, 1, 1>> >>,
      << <<1, 1, 1>>, <<3, 3, 3>> >>,
      << <<1, 1, 1>>, <<3, 3, 3>>, <<3, 1, 1>> >> }

Quarter(q) == (q * 2 * GridSize * (GridSize - 1)) \div 4

\* the position of generator i (from 0)
GenPos(gens, i) ==
    <<Quarter(gens[i + 1][1]), Quarter(gens[i + 1][2]), Quarter(gens[i + 1][3])>>

SqDist(u, v) == Dot(VSub(u, v), VSub(u, v))

\* currentPos of the WGSL shader: coords / (volumeSize - 1)
WgslVoxelPos(v) == <<v[1] * 2 * GridSize, v[2] * 2 * GridSize, v[3] * 2 * GridSize>>

\* volumePos of the GLSL shader: atlasToVolume of the texel centre
GlslVoxelPos(v) ==
    <<(2 * v[1] + 1) * (GridSize - 1), (2 * v[2] + 1) * (GridSize - 1),
      2 * v[3] * (GridSize - 1)>>

VoxelPos(kind, v) == IF kind = "jfaStep" THEN WgslVoxelPos(v) ELSE GlslVoxelPos(v)

\* the 27 offsets in the order of the shaders' loops: dz outermost, dx innermost
NeighbourOffsets ==
    [k \in 1..27 |-> <<((k - 1) % 3) - 1, (((k - 1) \div 3) % 3) - 1,
                       ((k - 1) \div 9) - 1>>]

SampleCoords(v, off, step) ==
    <<v[1] + off[1] * step, v[2] + off[2] * step, v[3] + off[3] * step>>

RECURSIVE FirstSeedWithin(_, _, _)
FirstSeedWithin(v, gens, i) ==
    IF i >= Len(gens) THEN NoSeed
    ELSE IF SqDist(WgslVoxelPos(v), GenPos(gens, i))
              < (2 * (GridSize - 1)) * (2 * (GridSize - 1))
      THEN i
    ELSE FirstSeedWithin(v, gens, i + 1)

\* initSeeds: the first generator nearer than one voxel size, or none
initSeeds(v, gens) == FirstSeedWithin(v, gens, 0)

RECURSIVE JfaStepFrom(_, _, _, _, _, _)
JfaStepFrom(k, v, step, tex, gens, best) ==
    IF k > 27 THEN best.id
    ELSE LET off == NeighbourOffsets[k]
             smp == SampleCoords(v, off, step)
             seedId == IF smp \in Voxels THEN tex[smp] ELSE NoSeed
             distance == SqDist(WgslVoxelPos(v), GenPos(gens, seedId))
             take == /\ off # <<0, 0, 0>>
                     /\ smp \in Voxels
                     /\ seedId >= 0 /\ seedId < Len(gens)
                     /\ (best.id = NoSeed \/ distance < best.distance)
         IN JfaStepFrom(k + 1, v, step, tex, gens,
                        IF take THEN [id |-> seedId, distance |-> distance] ELSE best)

\* jfaStep: the nearest generator among those the 26 sampled voxels hold,
\* starting from "no seed"; the centre voxel is skipped
jfaStep(v, step, tex, gens) ==
    JfaStepFrom(1, v, step, tex, gens, [id |-> NoSeed, distance |-> 0])

\* the voxel createInitialTexture plants a generator in
PlantedVoxel(gens, i) ==
    <<(gens[i + 1][1] * GridSize) \div 4, (gens[i + 1][2] * GridSize) \div 4,
      (gens[i + 1][3] * GridSize) \div 4>>

\* createInitialTexture: every texel empty, then each generator planted in turn
createInitialTexture(gens) ==
    [v \in Voxels |->
       LET here == {i \in 0..(Len(gens) - 1) : PlantedVoxel(gens, i) = v}
       IN IF here = {} THEN NoSeed
          ELSE CHOOSE i \in here : \A j \in here : j <= i]

\* the GLSL shader's test for "has a seed": w = (i + 1) / uNumPoints >= 0.5
GlslHasSeed(id, n) == id # NoSeed /\ 2 * (id + 1) >= n

RECURSIVE GlslMainFrom(_, _, _, _, _, _)
GlslMainFrom(k, v, step, tex, gens, current) ==
    IF k > 27 THEN current
    ELSE LET off == NeighbourOffsets[k]
             smp == SampleCoords(v, off, step)
             neighbor == IF smp \in Voxels THEN tex[smp] ELSE NoSeed
             next ==
               IF off = <<0, 0, 0>> \/ ~GlslHasSeed(neighbor, Len(gens)) THEN current
               ELSE IF ~GlslHasSeed(current, Len(gens)) THEN neighbor
               ELSE IF SqDist(GenPos(gens, neighbor), GlslVoxelPos(v))
                         < SqDist(GenPos(gens, current), GlslVoxelPos(v))
                 THEN neighbor
               ELSE current
         IN GlslMainFrom(k + 1, v, step, tex, gens, next)

\* main of the GLSL shader: starts from the texel's own value; a sample outside
\* the volume is empty
GlslMain(v, step, tex, gens) == GlslMainFrom(1, v, step, tex, gens, tex[v])

RECURSIVE Halving(_)
Halving(s) == IF s < 1 THEN <<>> ELSE <<s>> \o Halving(s \div 2)

\* the step sizes the passes of runJFAPasses run with: one pass per step of the
\* halving schedule, each reading the step size written last
WgslPassSteps(size) ==
    LET written == Halving(maxStepSize(size))
    IN [k \in 1..Len(written) |-> written[Len(written)]]

\* the step sizes the passes of runJFA run with
GlslPassSteps(size) ==
    [k \in 1..CeilLog2(size) |-> Pow2(CeilLog2(size) - k)]

\* the step sizes the passes of one computation run with
FloodPassSteps(kind) ==
    IF kind = "jfaStep" THEN WgslPassSteps(GridSize) ELSE GlslPassSteps(GridSize)

\* construction: the storage texture is zero-filled, the GLSL texture is empty
FloodInit ==
    /\ floodKind \in FloodKinds
    /\ generators \in GeneratorLayouts
    /\ grid = [v \in Voxels |-> IF floodKind = "jfaStep" THEN 0 ELSE NoSeed]
    /\ gridBefore = <<>>
    /\ pending = {}
    /\ passesLeft = FloodPassSteps(floodKind)
    /\ floodPc = "init"
    /\ firstGrid = <<>>
    /\ PhysicsIdle /\ FrameIdle /\ ScheduleIdle /\ LaterIdle

\* the initSeeds pass of runJFAPasses
InitSeedsPass ==
    /\ floodKind = "jfaStep"
    /\ floodPc = "init"
    /\ grid' = [v \in Voxels |-> initSeeds(v, generators)]
    /\ floodPc' = "between"
    /\ UNCHANGED <<firstGrid, floodKind, generators, gridBefore, pending, passesLeft>>
    /\ UNCHANGED <<physVars, frameVars, schedVars, laterVars>>

\* initGPUCompute: createInitialTexture seeds the variable
PlantSeeds ==
    /\ floodKind = "glsl"
    /\ floodPc = "init"
    /\ grid' = createInitialTexture(generators)
    /\ floodPc' = "between"
    /\ UNCHANGED <<firstGrid, floodKind, generators, gridBefore, pending, passesLeft>>
    /\ UNCHANGED <<physVars, frameVars, schedVars, laterVars>>

\* a jfaStep pass starts: one invocation per voxel
BeginJfaPass ==
    /\ floodKind = "jfaStep"
    /\ floodPc = "between"
    /\ passesLeft # <<>>
    /\ gridBefore' = grid
    /\ pending' = Voxels
    /\ floodPc' = "pass"
    /\ UNCHANGED <<firstGrid, floodKind, generators, grid, passesLeft>>
    /\ UNCHANGED <<physVars, frameVars, schedVars, laterVars>>

\* one invocation of jfaStep.  The pass reads and writes the same texture, so
\* the invocation finds the voxels of earlier invocations already rewritten.
JfaStepInvocation(v) ==
    /\ floodKind = "jfaStep"
    /\ floodPc = "pass"
    /\ v \in pending
    /\ grid' = [grid EXCEPT ![v] = jfaStep(v, Head(passesLeft), grid, generators)]
    /\ pending' = pending \ {v}
    /\ UNCHANGED <<firstGrid, floodKind, generators, gridBefore, passesLeft, floodPc>>
    /\ UNCHANGED <<physVars, frameVars, schedVars, laterVars>>

\* every invocation of the pass has run
EndJfaPass ==
    /\ floodKind = "jfaStep"
    /\ floodPc = "pass"
    /\ pending = {}
    /\ passesLeft' = Tail(passesLeft)
    /\ floodPc' = "between"
    /\ UNCHANGED <<firstGrid, floodKind, generators, grid, gridBefore, pending>>
    /\ UNCHANGED <<physVars, frameVars, schedVars, laterVars>>

\* one gpuCompute.compute(): every texel is computed from the previous render
\* target
GlslPass ==
    /\ floodKind = "glsl"
    /\ floodPc = "between"
    /\ passesLeft # <<>>
    /\ gridBefore' = grid
    /\ grid' = [v \in Voxels |-> GlslMain(v, Head(passesLeft), grid, generators)]
    /\ passesLeft' = Tail(passesLeft)
    /\ UNCHANGED <<firstGrid, floodKind, generators, pending, floodPc>>
    /\ UNCHANGED <<physVars, frameVars, schedVars, laterVars>>

\* no pass is left
FloodDone ==
    /\ floodPc = "between"
    /\ passesLeft = <<>>
    /\ floodPc' = "done"
    /\ UNCHANGED <<firstGrid, floodKind, generators, grid, gridBefore, pending, passesLeft>>
    /\ UNCHANGED <<physVars, frameVars, schedVars, laterVars>>

\* compute() is called again with the same generators: JFACompute re-runs the
\* seed pass on the texture, GPUVoronoiCompute rebuilds its initial texture
ComputeAgain ==
    /\ floodPc = "done"
    /\ firstGrid = <<>>
    /\ firstGrid' = grid
    /\ gridBefore' = <<>>
    /\ passesLeft' = FloodPassSteps(floodKind)
    /\ floodPc' = "init"
    /\ UNCHANGED <<floodKind, generators, grid, pending>>
    /\ UNCHANGED <<physVars, frameVars, schedVars, laterVars>>

FloodNext ==
    \/ ComputeAgain
    \/ InitSeedsPass
    \/ PlantSeeds
    \/ BeginJfaPass
    \/ \E v \in Voxels : JfaStepInvocation(v)
    \/ EndJfaPass
    \/ GlslPass
    \/ FloodDone

SpecFlood == FloodInit /\ [][FloodNext]_vars

(***************************************************************************)
(* Properties of the flood.                                                *)
(***************************************************************************)

ValidId(id) == id >= 0 /\ id < Len(generators)

\* the squared distance of voxel v to the generator it is assigned to
AssignedSqDist(tex, v) == SqDist(VoxelPos(floodKind, v), GenPos(generators, tex[v]))

\* C10 as claimed: when a flood pass has finished, every voxel that held a valid
\* generator id before the pass holds a valid one after it, at a weighted
\* distance no larger than before.
C10_OwnAssignmentKept ==
    (floodPc \in {"between", "done"} /\ gridBefore # <<>>) =>
      \A v \in Voxels :
        ValidId(gridBefore[v]) =>
          /\ ValidId(grid[v])
          /\ AssignedSqDist(grid, v) <= AssignedSqDist(gridBefore, v)

\* C12 as claimed: a second JFA computation on the same generator positions
\* and weights ends with the grid the first one ended with, whatever the order
\* of the per-voxel invocations within each pass.
C12_SecondRunSameGrid ==
    (floodPc = "done" /\ firstGrid # <<>>) => grid = firstGrid

\* what the shader of the computation writes for voxel v in a pass with the
\* given step size that finds the texture tex
PassOutput(v, step, tex) ==
    IF floodKind = "jfaStep" THEN jfaStep(v, step, tex, generators)
    ELSE GlslMain(v, step, tex, generators)

\* the voxels whose invocation of the current or next pass has yet to run
YetToRun ==
    IF floodKind = "jfaStep" /\ floodPc = "pass" THEN pending
    ELSE IF floodKind = "glsl" /\ floodPc = "between" /\ passesLeft # <<>> THEN Voxels
    ELSE {}

\* C28 as claimed: in every flood pass, a sampled neighbour voxel that holds the
\* id of any generator i in [0, N) is a candidate: the voxel is written a valid
\* id whose generator is no farther than generator i.
C28_EveryIdIsCandidate ==
    \A v \in YetToRun : \A k \in 1..27 :
      LET smp == SampleCoords(v, NeighbourOffsets[k], Head(passesLeft))
          out == PassOutput(v, Head(passesLeft), grid)
      IN (NeighbourOffsets[k] # <<0, 0, 0>> /\ smp \in Voxels /\ ValidId(grid[smp])) =>
           /\ ValidId(out)
           /\ SqDist(VoxelPos(floodKind, v), GenPos(generators, out))
                <= SqDist(VoxelPos(floodKind, v), GenPos(generators, grid[smp]))

\* 1.0 of the world in the units voxel positions are held in
WorldUnit == 2 * GridSize * (GridSize - 1)

\* toWorldSpace of the analysis shader, and the decoding of VoronoiAnalyzer:
\* (coords / size) * 2 - 1
toWorldSpace(v) ==
    <<v[1] * 4 * (GridSize - 1) - WorldUnit, v[2] * 4 * (GridSize - 1) - WorldUnit,
      v[3] * 4 * (GridSize - 1) - WorldUnit>>

\* C29 as claimed: the world position JFA compares against the generator
\* positions is, for every voxel, the world position Analysis uses for it, and
\* lies in [-1, 1] as the generator positions do.
C29_OneVoxelToWorldMapping ==
    floodKind \in FloodKinds =>
      \A v \in Voxels :
        /\ VoxelPos(floodKind, v) = toWorldSpace(v)
        /\ \A c \in 1..3 : Abs(VoxelPos(floodKind, v)[c]) <= WorldUnit

(***************************************************************************)
(* One complete JFA run with a single generator: the seed pass followed by *)
(* every flood pass, as HybridVoronoiSystem.update starts it on either     *)
(* renderer.  With one generator no two distances are ever compared, so    *)
(* the run is a matter of which voxels hold the generator's id.  The GLSL  *)
(* atlas is taken as the volume it stores: a sample outside it is empty.   *)
(***************************************************************************)

RunResolution == 8

RunCells == 0..(RunResolution - 1)

RunVoxels == RunCells \X RunCells \X RunCells

\* the only generator of the run
RunGenerators == {0}

\* components of seed.position, in tenths
RunCoordinates == {-9, 0, 9}

RunKinds == {"JFACompute", "GPUVoronoiCompute"}

\* the position updateSeedBuffer uploads: it reads seed.x, seed.y and seed.z,
\* which the generator records of HybridVoronoiSystem do not have
UploadedPosition(seedPosition) == <<0, 0, 0>>

\* initSeeds at one voxel: the generator is planted where
\* |coords / (volumeSize - 1) - position| < 1 / volumeSize
RunInitSeeds(v, uploaded) ==
    LET unit == RunResolution * (RunResolution - 1)
        currentPos == <<v[1] * 10 * RunResolution, v[2] * 10 * RunResolution,
                        v[3] * 10 * RunResolution>>
        seedPos == <<uploaded[1] * unit, uploaded[2] * unit, uploaded[3] * unit>>
        voxelSize == 10 * (RunResolution - 1)
    IN IF SqDist(currentPos, seedPos) < voxelSize * voxelSize THEN 0 ELSE NoSeed

\* the voxel createInitialTexture plants the generator in
RunPlantedVoxel(seedPosition) ==
    <<((seedPosition[1] + 10) * RunResolution) \div 20,
      ((seedPosition[2] + 10) * RunResolution) \div 20,
      ((seedPosition[3] + 10) * RunResolution) \div 20>>

\* the voxels a flood pass samples for voxel v: 26 offsets of the step size,
\* without the centre, inside the volume
RunSamples(v, step) ==
    { s \in { <<v[1] + d[1] * step, v[2] + d[2] * step, v[3] + d[3] * step>> :
                d \in {-1, 0, 1} \X {-1, 0, 1} \X {-1, 0, 1} } :
        s # v /\ s \in RunVoxels }

\* jfaStep with one generator: generator 0 when a sampled voxel holds a valid
\* id, else "no seed"; the voxel's own value is not looked at
RunJfaStep(v, step, tex) ==
    IF \E s \in RunSamples(v, step) : tex[s] \in RunGenerators THEN 0 ELSE NoSeed

\* main of the GLSL shader with one generator: the texel keeps a seed it has
\* and takes the seed of a sampled texel otherwise
RunGlslMain(v, step, tex) ==
    IF GlslHasSeed(tex[v], Cardinality(RunGenerators)) THEN tex[v]
    ELSE IF \E s \in RunSamples(v, step) :
              GlslHasSeed(tex[s], Cardinality(RunGenerators)) THEN 0
    ELSE tex[v]

\* the invocations of the voxels in part run, each reading the texture as it
\* is when the part starts
RunJfaPart(part, step, tex) ==
    [v \in RunVoxels |-> IF v \in part THEN RunJfaStep(v, step, tex) ELSE tex[v]]

\* the voxels of the workgroups (4 x 4 x 4 invocations) in the lower half of z
LowWorkgroups == {v \in RunVoxels : v[3] < 4}

\* A jfaStep pass reads and writes the same texture.  Of the orders in which
\* its invocations can run, three are followed: every invocation reads before
\* any writes, and the workgroups of one half of the volume finish before
\* those of the other half start.
RunOrders == {"together", "lowFirst", "highFirst"}

RunJfaPassResult(order, step, tex) ==
    CASE order = "together" -> RunJfaPart(RunVoxels, step, tex)
      [] order = "lowFirst" ->
           RunJfaPart(RunVoxels \ LowWorkgroups, step,
                      RunJfaPart(LowWorkgroups, step, tex))
      [] order = "highFirst" ->
           RunJfaPart(LowWorkgroups, step,
                      RunJfaPart(RunVoxels \ LowWorkgroups, step, tex))

\* construction: the storage texture is zero-filled, the GLSL texture is empty
RunInit ==
    /\ runKind \in RunKinds
    /\ runPosition \in RunCoordinates \X RunCoordinates \X RunCoordinates
    /\ runGrid = [v \in RunVoxels |-> IF runKind = "JFACompute" THEN 0 ELSE NoSeed]
    /\ runSteps = (IF runKind = "JFACompute" THEN WgslPassSteps(RunResolution)
                   ELSE GlslPassSteps(RunResolution))
    /\ runPc = "init"
    /\ EarlyIdle /\ NotRunIdle

\* JFACompute.compute: updateSeedBuffer, then the initSeeds pass
RunSeedPass ==
    /\ runKind = "JFACompute"
    /\ runPc = "init"
    /\ runGrid' = [v \in RunVoxels |-> RunInitSeeds(v, UploadedPosition(runPosition))]
    /\ runPc' = "flood"
    /\ UNCHANGED <<runKind, runPosition, runSteps>>
    /\ UNCHANGED <<earlyVars, notRunVars>>

\* GPUVoronoiCompute.compute: createInitialTexture
RunPlantSeeds ==
    /\ runKind = "GPUVoronoiCompute"
    /\ runPc = "init"
    /\ runGrid' = [v \in RunVoxels |->
                     IF v = RunPlantedVoxel(runPosition) THEN 0 ELSE NoSeed]
    /\ runPc' = "flood"
    /\ UNCHANGED <<runKind, runPosition, runSteps>>
    /\ UNCHANGED <<earlyVars, notRunVars>>

\* one jfaStep pass of runJFAPasses
RunJfaFloodPass(order) ==
    /\ runKind = "JFACompute"
    /\ runPc = "flood"
    /\ runSteps # <<>>
    /\ runGrid' = RunJfaPassResult(order, Head(runSteps), runGrid)
    /\ runSteps' = Tail(runSteps)
    /\ UNCHANGED <<runKind, runPosition, runPc>>
    /\ UNCHANGED <<earlyVars, notRunVars>>

\* one gpuCompute.compute() of runJFA
RunGlslFloodPass ==
    /\ runKind = "GPUVoronoiCompute"
    /\ runPc = "flood"
    /\ runSteps # <<>>
    /\ runGrid' = [v \in RunVoxels |-> RunGlslMain(v, Head(runSteps), runGrid)]
    /\ runSteps' = Tail(runSteps)
    /\ UNCHANGED <<runKind, runPosition, runPc>>
    /\ UNCHANGED <<earlyVars, notRunVars>>

\* the last flood pass has run
RunComplete ==
    /\ runPc = "flood"
    /\ runSteps = <<>>
    /\ runPc' = "done"
    /\ UNCHANGED <<runKind, runPosition, runGrid, runSteps>>
    /\ UNCHANGED <<earlyVars, notRunVars>>

RunNext ==
    \/ RunSeedPass
    \/ RunPlantSeeds
    \/ \E order \in RunOrders : RunJfaFloodPass(order)
    \/ RunGlslFloodPass
    \/ RunComplete

SpecRun == RunInit /\ [][RunNext]_vars

\* C11 as claimed: with exactly one generator, anywhere in the domain, and
\* resolution 8, after the seed pass and all flood passes every voxel holds
\* cellId 0 and none holds the unassigned sentinel.
C11_SingleGeneratorOwnsEveryVoxel ==
    runPc = "done" => \A v \in RunVoxels : runGrid[v] = 0

\* ---------------------------------------------------------------------------
\* The Analysis stage: VoronoiAnalyzer.analyze on the CPU, AnalysisCompute.compute
\* and the analysis and finalization shaders of PureGPUSystem on the GPU.
\* Coordinates of generators, junctions and centroids are in thousandths.
\* A shader invocation is one step: its atomicAdd calls commute, so the
\* buffers after a pass depend only on which invocations have run.
\* ---------------------------------------------------------------------------

AnaSize == 2

AnaNumSeeds == 4

MaxAnaPasses == 2

AnaKinds == {"VoronoiAnalyzer", "AnalysisCompute", "PureGPU"}

AnaCoords == 0 .. (AnaSize - 1)

AnaVoxels == AnaCoords \X AnaCoords \X AnaCoords

AnaGenerators == 0 .. (AnaNumSeeds - 1)

\* how far from the origin the generators sit
AnaSpreads == {300, 900}

\* generator i sits in the corner of the cube of half-width spread that the bits of i name
GeneratedPositions(spread) ==
    [i \in AnaGenerators |->
        << IF i % 2 = 1 THEN spread ELSE -spread,
           IF (i \div 2) % 2 = 1 THEN spread ELSE -spread,
           IF (i \div 4) % 2 = 1 THEN spread ELSE -spread >>]

\* a getOutputData that has no render target gives null
MissingOutput == <<>>

AnaLayouts == {"octants", "layers", "halves", "corrupt", "unassigned", "single"}

\* the cellId each voxel of a JFA output holds
JfaOutput(layout) ==
    [v \in AnaVoxels |->
        CASE layout = "octants" -> (v[1] % 2) + 2 * (v[2] % 2)
          [] layout = "layers" -> Min2(v[1] + v[2] + v[3], 2)
          [] layout = "halves" -> v[1] % 2
          [] layout = "corrupt" ->
                IF v = <<1, 1, 1>> THEN AnaNumSeeds ELSE Min2(v[1] + v[2] + v[3], 2)
          [] layout = "unassigned" -> NoSeed
          [] OTHER -> 0]

\* seed index in range: the test before every access of the generator array
ValidCellID(id) == id >= 0 /\ id < AnaNumSeeds

\* getCellID of the junction scan: the CPU scan only drops the unassigned voxels
JunctionCellID(kind, id) ==
    IF kind = "VoronoiAnalyzer"
    THEN id
    ELSE IF ValidCellID(id) THEN id ELSE NoSeed

CubeCorners(v) ==
    {<<v[1] + d[1], v[2] + d[2], v[3] + d[3]>> : d \in {0, 1} \X {0, 1} \X {0, 1}}

FullCube(v) == v[1] < AnaSize - 1 /\ v[2] < AnaSize - 1 /\ v[3] < AnaSize - 1

\* the voxels whose cube a pass examines
ScansCube(kind, tex, v) ==
    IF kind = "PureGPU" THEN ValidCellID(tex[v]) ELSE FullCube(v)

\* the distinct cell ids a pass sees in the cube at v
CubeCellIDs(kind, tex, v) ==
    {JunctionCellID(kind, tex[c]) : c \in CubeCorners(v) \cap AnaVoxels} \ {NoSeed}

JunctionThreshold(kind) == IF kind = "VoronoiAnalyzer" THEN 4 ELSE 3

FoundJunction(kind, tex, v) ==
    /\ ScansCube(kind, tex, v)
    /\ Cardinality(CubeCellIDs(kind, tex, v)) >= JunctionThreshold(kind)

JunctionPos(v) == [k \in 1 .. 3 |-> ((2 * v[k] + 1) * 1000) \div AnaSize - 1000]

Minus(u, w) == [k \in 1 .. 3 |-> u[k] - w[k]]

\* acos(dot of the unit vectors) < PI / 2
AcuteAt(pos, v, a, b) ==
    Dot(Minus(pos[a], JunctionPos(v)), Minus(pos[b], JunctionPos(v))) > 0

\* the pairs of cells of the junction at v that meet at an acute angle
AcutePairs(kind, tex, pos, v) ==
    IF ~FoundJunction(kind, tex, v)
    THEN {}
    ELSE {p \in CubeCellIDs(kind, tex, v) \X CubeCellIDs(kind, tex, v) :
            /\ p[1] < p[2]
            /\ ValidCellID(p[1]) /\ ValidCellID(p[2])
            /\ AcuteAt(pos, v, p[1], p[2])}

OnlyFirstOfPair(p) == {p[1]}

\* the generators whose acuteCount an acute pair increments
IncrementedByPair(p) == {p[1], p[2]}

AcuteAdded(kind, tex, pos, v, i) ==
    Cardinality({p \in AcutePairs(kind, tex, pos, v) : i \in IncrementedByPair(p)})

RECURSIVE SumOver(_, _)
SumOver(f, S) ==
    IF S = {} THEN 0
    ELSE LET e == CHOOSE x \in S : TRUE IN f[e] + SumOver(f, S \ {e})

\* what a voxel adds to a positionSum: its coordinates, or on AnalysisCompute
\* u32((worldPos + 1.0) * 1000000.0)
SummedCoordinate(kind, v, k) ==
    IF kind = "AnalysisCompute" THEN (v[k] * 2000000) \div AnaSize ELSE v[k]

OwnedVoxels(tex, i, S) == {v \in S : ValidCellID(tex[v]) /\ tex[v] = i}

PositionSum(kind, tex, i, S) ==
    [k \in 1 .. 3 |->
        SumOver([v \in AnaVoxels |-> SummedCoordinate(kind, v, k)], OwnedVoxels(tex, i, S))]

\* a cell without voxels: the CPU copies the position, both GPU finalizations leave zero
FinalCentroid(kind, sum, count, own) ==
    IF count > 0
    THEN [k \in 1 .. 3 |->
            IF kind = "AnalysisCompute"
            THEN RDiv(sum[k], count * 1000) - 1000
            ELSE RDiv(sum[k] * 2000, count * AnaSize) - 1000]
    ELSE IF kind = "VoronoiAnalyzer" THEN own ELSE <<0, 0, 0>>

\* the invocations of S that have run, as the buffers show them
AccumulatedOver(kind, tex, pos, S) ==
    [i \in AnaGenerators |->
        [sum |-> PositionSum(kind, tex, i, S),
         count |-> Cardinality(OwnedVoxels(tex, i, S)),
         acute |-> SumOver([v \in AnaVoxels |-> AcuteAdded(kind, tex, pos, v, i)], S)]]

JunctionsOver(kind, tex, S) == {v \in S : FoundJunction(kind, tex, v)}

AnalysisInit ==
    /\ anaKind \in AnaKinds
    /\ \E spread \in AnaSpreads :
        /\ anaPositions = GeneratedPositions(spread)
        /\ anaSeeds = [i \in AnaGenerators |->
                         [position |-> GeneratedPositions(spread)[i], centroid |-> <<>>,
                          voxelCount |-> 0, acuteCount |-> 0]]
    /\ \E layout \in AnaLayouts : anaTexture = JfaOutput(layout)
    /\ anaAccum = <<>> /\ anaPending = {} /\ anaJunctions = {}
    /\ anaPasses = 0 /\ anaPc = "idle"
    /\ EarlyIdle /\ NotAnalysisIdle

\* VoronoiAnalyzer.analyze: nothing is touched when the output is missing
Analyze ==
    /\ anaKind = "VoronoiAnalyzer" /\ anaPc = "idle"
    /\ IF anaTexture = MissingOutput
       THEN UNCHANGED <<anaSeeds, anaJunctions>>
       ELSE LET acc == AccumulatedOver(anaKind, anaTexture, anaPositions, AnaVoxels) IN
            /\ anaSeeds' =
                [i \in AnaGenerators |->
                    [position |-> anaSeeds[i].position,
                     centroid |-> FinalCentroid(anaKind, acc[i].sum, acc[i].count,
                                                anaSeeds[i].position),
                     voxelCount |-> acc[i].count,
                     acuteCount |-> acc[i].acute]]
            /\ anaJunctions' = JunctionsOver(anaKind, anaTexture, AnaVoxels)
    /\ anaPasses' = anaPasses + 1 /\ anaPc' = "done"
    /\ UNCHANGED <<anaKind, anaPositions, anaTexture, anaAccum, anaPending>>
    /\ UNCHANGED <<earlyVars, notAnaVars>>

\* AnalysisCompute.compute up to the submit (updateSeedBuffer, clearBuffers,
\* dispatch) and the clearBuffer calls and dispatch of PureGPUSystem.update
DispatchAnalysis ==
    /\ anaKind # "VoronoiAnalyzer" /\ anaPc = "idle"
    /\ anaSeeds' =
        IF anaKind = "AnalysisCompute"
        THEN [i \in AnaGenerators |->
                [position |-> anaPositions[i], centroid |-> anaPositions[i],
                 voxelCount |-> 0, acuteCount |-> 0]]
        ELSE [i \in AnaGenerators |-> [anaSeeds[i] EXCEPT !.acuteCount = 0]]
    /\ anaAccum' = AccumulatedOver(anaKind, anaTexture, anaPositions, {})
    /\ anaPending' = AnaVoxels /\ anaJunctions' = {}
    /\ anaPc' = "dispatched"
    /\ UNCHANGED <<anaKind, anaPositions, anaTexture, anaPasses>>
    /\ UNCHANGED <<earlyVars, notAnaVars>>

\* one invocation of the analysis shader
AnalysisInvocation(v) ==
    /\ anaPc = "dispatched" /\ v \in anaPending
    /\ LET adds == AccumulatedOver(anaKind, anaTexture, anaPositions, {v}) IN
        anaAccum' =
            [i \in AnaGenerators |->
                [sum |-> [k \in 1 .. 3 |-> anaAccum[i].sum[k] + adds[i].sum[k]],
                 count |-> anaAccum[i].count + adds[i].count,
                 acute |-> anaAccum[i].acute + adds[i].acute]]
    /\ anaJunctions' = anaJunctions \cup JunctionsOver(anaKind, anaTexture, {v})
    /\ anaPending' = anaPending \ {v}
    /\ UNCHANGED <<anaKind, anaPositions, anaTexture, anaSeeds, anaPasses, anaPc>>
    /\ UNCHANGED <<earlyVars, notAnaVars>>

\* AnalysisCompute.finalizeCentroids writes a fresh Float32Array over the whole
\* seed buffer; the finalization shader of PureGPUSystem writes floatCentroids
FinalizeCentroids ==
    /\ anaPc = "dispatched" /\ anaPending = {}
    /\ anaSeeds' =
        [i \in AnaGenerators |->
            [position |-> IF anaKind = "AnalysisCompute" THEN <<0, 0, 0>>
                          ELSE anaSeeds[i].position,
             centroid |-> FinalCentroid(anaKind, anaAccum[i].sum, anaAccum[i].count,
                                        anaSeeds[i].position),
             voxelCount |-> anaAccum[i].count,
             acuteCount |-> anaAccum[i].acute]]
    /\ anaPasses' = anaPasses + 1 /\ anaPc' = "done"
    /\ UNCHANGED <<anaKind, anaPositions, anaTexture, anaAccum, anaPending, anaJunctions>>
    /\ UNCHANGED <<earlyVars, notAnaVars>>

\* the next frame: JFA has produced another output, or on the CPU path none
NextOutput ==
    /\ anaPc = "done" /\ anaPasses < MaxAnaPasses
    /\ \/ \E layout \in AnaLayouts : anaTexture' = JfaOutput(layout)
       \/ anaKind = "VoronoiAnalyzer" /\ anaTexture' = MissingOutput
    /\ anaPc' = "idle"
    /\ UNCHANGED <<anaKind, anaPositions, anaSeeds, anaAccum, anaPending, anaJunctions,
                   anaPasses>>
    /\ UNCHANGED <<earlyVars, notAnaVars>>

AnalysisNext ==
    \/ Analyze
    \/ DispatchAnalysis
    \/ \E v \in AnaVoxels : AnalysisInvocation(v)
    \/ FinalizeCentroids
    \/ NextOutput

SpecAnalysis == AnalysisInit /\ [][AnalysisNext]_vars

\* what a pass that starts from zero counts on the output it is given; a missing
\* output has no voxel to count
FreshAnalysis ==
    AccumulatedOver(anaKind, anaTexture, anaPositions,
                    IF anaTexture = MissingOutput THEN {} ELSE AnaVoxels)

\* C13: after every Analysis pass the voxelCount, acuteCount and centroid of every
\* generator are the ones counted from zero on the output and the positions the
\* pass was given, also when that output is missing: nothing of an earlier frame
\* is left in them.
C13_NothingStaleAfterPass ==
    anaPc = "done" =>
        \A i \in AnaGenerators :
            /\ anaSeeds[i].voxelCount = FreshAnalysis[i].count
            /\ anaSeeds[i].acuteCount = FreshAnalysis[i].acute
            /\ anaSeeds[i].centroid =
                FinalCentroid(anaKind, FreshAnalysis[i].sum, FreshAnalysis[i].count,
                              anaPositions[i])

\* C14: Analysis writes only centroid, voxelCount and acuteCount: after a pass, its
\* centroid finalization included, the position in every generator's record is the
\* position the generator had before the pass.
C14_PositionKeptByAnalysis ==
    anaPc = "done" => \A i \in AnaGenerators : anaSeeds[i].position = anaPositions[i]

\* C15: after a pass on a present output, a generator that owns no voxel has its
\* own position as centroid, and one that owns voxels has the world-space image
\* (coordinate / size * 2 - 1) of the mean coordinate of its voxels.
C15_CentroidOfCell ==
    (anaPc = "done" /\ anaTexture # MissingOutput) =>
        \A i \in AnaGenerators :
            LET owned == OwnedVoxels(anaTexture, i, AnaVoxels) IN
            /\ anaSeeds[i].voxelCount = Cardinality(owned)
            /\ owned = {} => anaSeeds[i].centroid = anaPositions[i]
            /\ owned # {} =>
                anaSeeds[i].centroid =
                    [k \in 1 .. 3 |->
                        RDiv(SumOver([v \in AnaVoxels |-> v[k]], owned) * 2000,
                             Cardinality(owned) * AnaSize) - 1000]

\* C16: the junction pass examines exactly the voxels whose 2x2x2 cube lies inside
\* the grid, and reports such a cube as a junction exactly when its eight voxels
\* hold at least 3 distinct valid cell ids.
C16_JunctionsOfFullCubes ==
    (anaPc = "done" /\ anaTexture # MissingOutput) =>
        anaJunctions =
            {v \in AnaVoxels :
                /\ FullCube(v)
                /\ Cardinality({anaTexture[c] : c \in CubeCorners(v)}
                               \cap AnaGenerators) >= 3}

\* the acute (junction, pair) combinations among the invocations S
AcutePairsCounted(S) ==
    SumOver([v \in AnaVoxels |->
                Cardinality(AcutePairs(anaKind, anaTexture, anaPositions, v))], S)

\* C17: every acute pair (A, B) at a junction adds exactly 1 to A's acuteCount and
\* 1 to B's: whichever invocations have run, in whatever order, the counts add up
\* to twice the number of acute (junction, pair) combinations counted so far, and
\* after the pass every generator's count is the number of acute pairs it is in.
C17_AcutePairsCountedTwice ==
    /\ anaPc = "dispatched" =>
        SumOver([i \in AnaGenerators |-> anaAccum[i].acute], AnaGenerators)
            = 2 * AcutePairsCounted(AnaVoxels \ anaPending)
    /\ (anaPc = "done" /\ anaTexture # MissingOutput) =>
        /\ SumOver([i \in AnaGenerators |-> anaSeeds[i].acuteCount], AnaGenerators)
            = 2 * AcutePairsCounted(AnaVoxels)
        /\ \A i \in AnaGenerators :
            anaSeeds[i].acuteCount =
                SumOver([v \in AnaVoxels |->
                            Cardinality({p \in AcutePairs(anaKind, anaTexture, anaPositions, v) :
                                            i = p[1] \/ i = p[2]})], AnaVoxels)
    /\ anaPc = "done" =>
        SumOver([i \in AnaGenerators |-> anaSeeds[i].acuteCount], AnaGenerators) % 2 = 0

\* a finished GPU pass in which two invocations each counted an acute pair
C17_TwoWorkersCounted ==
    /\ anaPc = "done" /\ anaKind = "PureGPU"
    /\ Cardinality({v \in anaJunctions :
                      AcutePairs(anaKind, anaTexture, anaPositions, v) # {}}) >= 2
    /\ \E i \in AnaGenerators : anaSeeds[i].acuteCount >= 2

\* an output in which the ids outside the generator array are unassigned
Sanitized(tex) ==
    [v \in AnaVoxels |-> IF ValidCellID(tex[v]) THEN tex[v] ELSE NoSeed]

\* C18: a voxel whose stored cellId is at least the number of generators counts
\* like an unassigned voxel: the pass ends with the voxelCount, centroid,
\* acuteCount and junctions it would have with that voxel unassigned.
C18_OutOfRangeIdIsUnassigned ==
    (anaPc = "done" /\ anaTexture # MissingOutput) =>
        LET clean == AccumulatedOver(anaKind, Sanitized(anaTexture), anaPositions, AnaVoxels) IN
        /\ anaJunctions = JunctionsOver(anaKind, Sanitized(anaTexture), AnaVoxels)
        /\ \A i \in AnaGenerators :
            /\ anaSeeds[i].voxelCount = clean[i].count
            /\ anaSeeds[i].acuteCount = clean[i].acute
            /\ anaSeeds[i].centroid =
                FinalCentroid(anaKind, clean[i].sum, clean[i].count, anaPositions[i])

\* ---------------------------------------------------------------------------
\* The centroid accumulators at full resolution. One generator owns a slab of
\* the grid, the voxels with centLo <= x <= centHi; positionSumX and voxelCount
\* are followed (Y and Z accumulate the same way along their axes). A step is
\* the invocations of all voxels with one x. The GPU accumulators are
\* atomic<u32>: a value is kept as <<high, low>> with low < 2^16, and the
\* accumulator holds high modulo 2^16. The CPU sums are doubles, exact here.
\* ---------------------------------------------------------------------------

HalfWord == Pow2(16)

CentSizes == {n \in VolumeSizes : IsPowerOfTwo(n) /\ n >= 8}

CentSlabs(size) ==
    {<<0, size - 1>>, <<size \div 2, size - 1>>, <<0, size \div 2 - 1>>,
     <<size - 1, size - 1>>, <<0, 0>>}

\* what one voxel with coordinate x adds to positionSumX
AddedCoordinate(kind, size, x) ==
    IF kind = "AnalysisCompute" THEN (x * 2000000) \div size ELSE x

\* acc + n * b without loss, 0 <= b < 2^31 and n <= 2^8
AddExact(acc, b, n) ==
    LET low == acc[2] + n * (b % HalfWord) IN
    <<acc[1] + n * (b \div HalfWord) + (low \div HalfWord), low % HalfWord>>

\* n calls of atomicAdd with b on an atomic<u32>; the CPU adds doubles
AtomicAdds(kind, acc, b, n) ==
    LET exact == AddExact(acc, b, n) IN
    IF kind = "VoronoiAnalyzer" THEN exact ELSE <<exact[1] % HalfWord, exact[2]>>

\* floor(value / 1000) of a u32 <<high, low>>
Thousandth(acc) == acc[1] * 65 + (acc[1] * 536 + acc[2]) \div 1000

\* centroid.x in thousandths, rounded down
CentroidX(kind, size, acc, count) ==
    IF kind = "AnalysisCompute"
    THEN Thousandth(acc) \div count - 1000
    ELSE LET sum == acc[1] * HalfWord + acc[2] IN
         ((sum \div count) * 2000 + ((sum % count) * 2000) \div count) \div size - 1000

CentroidInit ==
    /\ centKind \in AnaKinds
    /\ centSize \in CentSizes
    /\ \E slab \in CentSlabs(centSize) : centLo = slab[1] /\ centHi = slab[2]
    /\ centNext = centLo
    /\ centSum = <<0, 0>> /\ centTrue = <<0, 0>> /\ centCount = 0
    /\ centCentroid = 0 /\ centPc = "summing"
    /\ EarlyIdle /\ NotCentroidIdle

\* the invocations of the voxels with x = centNext
AccumulateSlab ==
    /\ centPc = "summing" /\ centNext <= centHi
    /\ LET b == centSize * AddedCoordinate(centKind, centSize, centNext) IN
        /\ centSum' = AtomicAdds(centKind, centSum, b, centSize)
        /\ centTrue' = AddExact(centTrue, b, centSize)
    /\ centCount' = centCount + centSize * centSize
    /\ centNext' = centNext + 1
    /\ UNCHANGED <<centKind, centSize, centLo, centHi, centCentroid, centPc>>
    /\ UNCHANGED <<earlyVars, notCentVars>>

FinalizeOwnedCentroid ==
    /\ centPc = "summing" /\ centNext > centHi
    /\ centCentroid' = CentroidX(centKind, centSize, centSum, centCount)
    /\ centPc' = "done"
    /\ UNCHANGED <<centKind, centSize, centLo, centHi, centNext, centSum, centTrue, centCount>>
    /\ UNCHANGED <<earlyVars, notCentVars>>

CentroidNext ==
    \/ AccumulateSlab
    \/ FinalizeOwnedCentroid

SpecCentroid == CentroidInit /\ [][CentroidNext]_vars

\* C19: the centroid of a cell lies between the least and the greatest world
\* coordinate (x / size * 2 - 1) of the voxels the generator owns.
C19_CentroidInsideOwnedVoxels ==
    centPc = "done" =>
        /\ centCentroid >= (centLo * 2000) \div centSize - 1000
        /\ centCentroid <= (centHi * 2000 + centSize - 1) \div centSize - 1000

\* C20: positionSumX and voxelCount never wrap: at every moment the accumulator
\* holds the sum of what was added to it, and the count stays below 2^32.
C20_AccumulatorsNeverWrap ==
    centPc # "none" =>
        /\ centSum = centTrue
        /\ centCount \div HalfWord < HalfWord

\* ---------------------------------------------------------------------------
\* One session of HybridVoronoiSystem: init(), then calls of regenerate,
\* gpuCompute.setResolution and update in any order.  On the WebGL renderer a
\* frame is PhysicsEngine.update, updateSeedTexture, the JFA computation (whose
\* output is one of the layouts of the Analysis part), VoronoiAnalyzer.analyze
\* and updatePhysicsStats.  On the WebGPU renderer physicsCompute.compute
\* rejects and the catch of update ends the frame.
\* ---------------------------------------------------------------------------

MaxSesOps == 3

Renderers == {"WebGL", "WebGPU"}

\* the arguments regenerate and setResolution are called with
SesPointCounts == {0, 1, AnaNumSeeds}

SesResolutions == {0, AnaSize}

SesThresholds == {0, 2}

SesGrowthRates == {50}

\* the indices of seedData
SesIds == DOMAIN sesSeeds

NoSesObs == [request |-> <<>>, prev |-> <<>>, threw |-> FALSE, ran |-> FALSE,
             frameConfig |-> <<>>, from |-> <<>>, grew |-> 0, shrank |-> 0,
             uploaded |-> <<>>, junctions |-> {}]

\* generateInitialSeeds: fresh records with a position, acuteCount 0, no centroid
\* (init() draws the "corner" positions, regenerate the "interior" ones)
generateInitialSeeds(numPoints, layout) ==
    [i \in 0 .. (numPoints - 1) |->
        [position |-> InitialPosition(layout, i), acuteCount |-> 0, centroid |-> <<>>]]

\* rawFlux of applyGrowthAlgorithm for seed i of the session
SesRawFlux(i) ==
    SignedFlux(CpuFluxDecision(sesSeeds[i].acuteCount, sesSettings.threshold,
                               sesSettings.mode))

\* rawFlux after the division by maxFlux
SesFlux(i) ==
    LET maxFlux == MaxOver([j \in SesIds |-> Abs(SesRawFlux(j))], SesIds)
    IN IF maxFlux > 0 THEN RDiv(SesRawFlux(i) * 1000, maxFlux) ELSE SesRawFlux(i)

\* previousDeltas.get(i) || 0, damped and clamped
SesDelta(i) == DampedDelta(sesDeltas[i], SesFlux(i), sesSettings.growthRate)

\* physicsEngine.update(seedData, physicsSettings): the Map of previous deltas
\* after it
SesDeltasAfter ==
    [i \in DOMAIN sesDeltas |->
        IF i \in SesIds /\ SesFlux(i) # 0 THEN SesDelta(i) ELSE sesDeltas[i]]

\* the seeds after it: a seed with flux moves by the delta stored for it
SesSeedsAfter(deltas, rnd) ==
    [i \in SesIds |->
        IF SesFlux(i) = 0 THEN sesSeeds[i]
        ELSE [sesSeeds[i] EXCEPT
                !.position =
                    NewPosition(@, CpuDirection(@, calculateCellCentroid(@, i), rnd),
                                deltas[i])]]

\* the seeds the position loop applied a flux of the given sign to
SesApplied(sign) == {i \in SesIds : Sgn(SesFlux(i)) = sign}

\* updateSeedTexture: seed.position of every seed, in index order
updateSeedTexture(seeds) == [i \in DOMAIN seeds |-> seeds[i].position]

\* the JFA outputs a frame with n generators can hand to Analysis
SesLayouts(n) ==
    IF n = 0 THEN {"unassigned"}
    ELSE IF n < AnaNumSeeds THEN {"single"}
    ELSE {"octants", "layers", "halves", "single"}

\* the voxels analyze(jfaOutput, seedData, volumeResolution) loops over
SesVoxels(resolution) == IF resolution = AnaSize THEN AnaVoxels ELSE {}

\* VoronoiAnalyzer.analyze on the seeds physics left
SesAnalyze(seeds, tex, resolution) ==
    LET pos == [i \in DOMAIN seeds |-> seeds[i].position]
        acc == AccumulatedOver("VoronoiAnalyzer", tex, pos, SesVoxels(resolution))
    IN [i \in DOMAIN seeds |->
          [position |-> seeds[i].position,
           acuteCount |-> acc[i].acute,
           centroid |-> FinalCentroid("VoronoiAnalyzer", acc[i].sum, acc[i].count,
                                      seeds[i].position)]]

\* updatePhysicsStats: counted from seed.acuteCount as the frame leaves it
updatePhysicsStats(seeds, st, enabled) ==
    LET above == {i \in DOMAIN seeds : seeds[i].acuteCount > st.threshold}
        rest == (DOMAIN seeds) \ above
    IN IF ~enabled THEN [growingCells |-> 0, shrinkingCells |-> 0]
       ELSE CASE st.mode = "balanced" ->
                   [growingCells |-> Cardinality(above), shrinkingCells |-> Cardinality(rest)]
              [] st.mode = "growthOnly" ->
                   [growingCells |-> Cardinality(above), shrinkingCells |-> 0]
              [] st.mode = "shrinkOnly" ->
                   [growingCells |-> 0, shrinkingCells |-> Cardinality(above)]
              [] st.mode = "inverse" ->
                   [growingCells |-> Cardinality(rest), shrinkingCells |-> Cardinality(above)]
              [] OTHER -> [growingCells |-> 0, shrinkingCells |-> 0]

\* the state init() leaves: the constructor's settings, generated seeds, an
\* empty Map of previous deltas, the simulation started
SessionInit ==
    /\ sesRenderer \in Renderers
    /\ \E n \in SesPointCounts \ {0} :
          /\ sesConfig = [numPoints |-> n, volumeResolution |-> AnaSize,
                          volumeSize |-> AnaSize]
          /\ sesSeeds = generateInitialSeeds(n, "corner")
    /\ sesSettings \in [threshold : SesThresholds, growthRate : SesGrowthRates,
                        mode : ModeNames]
    /\ sesEnabled \in BOOLEAN
    /\ sesRunning = TRUE
    /\ sesDeltas = [i \in AnaGenerators |-> 0]
    /\ sesStats = [growingCells |-> 0, shrinkingCells |-> 0]
    /\ sesOps = 0
    /\ sesLast = "init"
    /\ sesObs = NoSesObs
    /\ EarlyIdle /\ NotSessionIdle

\* HybridVoronoiSystem.regenerate(numPoints, resolution)
Regenerate(numPoints, resolution) ==
    /\ sesOps < MaxSesOps
    /\ sesConfig' = [numPoints |-> numPoints, volumeResolution |-> resolution,
                     volumeSize |-> resolution]
    /\ sesSeeds' = generateInitialSeeds(numPoints, "interior")
    /\ sesRunning' = TRUE
    /\ sesOps' = sesOps + 1
    /\ sesLast' = "regenerate"
    /\ sesObs' = [NoSesObs EXCEPT
                    !.request = [numPoints |-> numPoints, resolution |-> resolution],
                    !.prev = sesConfig]
    /\ UNCHANGED <<sesRenderer, sesSettings, sesEnabled, sesDeltas, sesStats>>
    /\ UNCHANGED <<earlyVars, notSesVars>>

\* gpuCompute.setResolution(resolution), of JFACompute and of GPUVoronoiCompute
SetResolution(resolution) ==
    /\ sesOps < MaxSesOps
    /\ sesConfig' = [sesConfig EXCEPT !.volumeSize = resolution]
    /\ sesOps' = sesOps + 1
    /\ sesLast' = "setResolution"
    /\ sesObs' = [NoSesObs EXCEPT
                    !.request = [numPoints |-> sesConfig.numPoints,
                                 resolution |-> resolution],
                    !.prev = sesConfig]
    /\ UNCHANGED <<sesRenderer, sesSettings, sesEnabled, sesRunning, sesSeeds, sesDeltas,
                   sesStats>>
    /\ UNCHANGED <<earlyVars, notSesVars>>

\* update() on the WebGL renderer with physics enabled: every stage runs
SessionUpdateWebGL ==
    /\ sesRenderer = "WebGL" /\ sesRunning /\ sesEnabled
    /\ sesOps < MaxSesOps
    /\ sesDeltas' = SesDeltasAfter
    /\ \E rnd \in RandomDirs : \E layout \in SesLayouts(sesConfig.numPoints) :
        /\ sesSeeds' = SesAnalyze(SesSeedsAfter(sesDeltas', rnd), JfaOutput(layout),
                                  sesConfig.volumeResolution)
        /\ sesObs' = [NoSesObs EXCEPT
                        !.ran = TRUE,
                        !.frameConfig = sesConfig,
                        !.from = updateSeedTexture(sesSeeds),
                        !.grew = Cardinality(SesApplied(1)),
                        !.shrank = Cardinality(SesApplied(-1)),
                        !.uploaded = updateSeedTexture(SesSeedsAfter(sesDeltas', rnd)),
                        !.junctions =
                            JunctionsOver("VoronoiAnalyzer", JfaOutput(layout),
                                          SesVoxels(sesConfig.volumeResolution))]
    /\ sesStats' = updatePhysicsStats(sesSeeds', sesSettings, sesEnabled)
    /\ sesOps' = sesOps + 1
    /\ sesLast' = "update"
    /\ UNCHANGED <<sesRenderer, sesConfig, sesSettings, sesEnabled, sesRunning>>
    /\ UNCHANGED <<earlyVars, notSesVars>>

\* update() on the WebGPU renderer with physics enabled: physicsCompute.compute
\* rejects, the catch logs it, and performanceStats is returned as it was
SessionUpdateWebGPU ==
    /\ sesRenderer = "WebGPU" /\ sesRunning /\ sesEnabled
    /\ sesOps < MaxSesOps
    /\ sesOps' = sesOps + 1
    /\ sesLast' = "update"
    /\ sesObs' = [NoSesObs EXCEPT !.from = updateSeedTexture(sesSeeds)]
    /\ UNCHANGED <<sesRenderer, sesConfig, sesSettings, sesEnabled, sesRunning, sesSeeds,
                   sesDeltas, sesStats>>
    /\ UNCHANGED <<earlyVars, notSesVars>>

\* update() with physics disabled: no stage runs, updatePhysicsStats zeroes the counts
SessionUpdateDisabled ==
    /\ sesRunning /\ ~sesEnabled
    /\ sesOps < MaxSesOps
    /\ sesStats' = updatePhysicsStats(sesSeeds, sesSettings, sesEnabled)
    /\ sesOps' = sesOps + 1
    /\ sesLast' = "update"
    /\ sesObs' = [NoSesObs EXCEPT !.from = updateSeedTexture(sesSeeds)]
    /\ UNCHANGED <<sesRenderer, sesConfig, sesSettings, sesEnabled, sesRunning, sesSeeds,
                   sesDeltas>>
    /\ UNCHANGED <<earlyVars, notSesVars>>

SessionNext ==
    \/ \E n \in SesPointCounts, r \in SesResolutions : Regenerate(n, r)
    \/ \E r \in SesResolutions : SetResolution(r)
    \/ SessionUpdateWebGL
    \/ SessionUpdateWebGPU
    \/ SessionUpdateDisabled

SpecSession == SessionInit /\ [][SessionNext]_vars

\* a reconfiguration request with a non-positive resolution or no generator
InvalidRequest(request) == request.numPoints <= 0 \/ request.resolution <= 0

\* C21 as claimed: a regenerate or setResolution request with a non-positive
\* resolution or zero generators is rejected with an error and leaves the
\* previous configuration in place, and no frame runs with such a configuration.
C21_InvalidRequestRejected ==
    /\ (sesLast \in {"regenerate", "setResolution"} /\ InvalidRequest(sesObs.request)) =>
          sesObs.threw /\ sesConfig = sesObs.prev
    /\ (sesLast = "update" /\ sesObs.ran) =>
          /\ sesObs.frameConfig.numPoints > 0
          /\ sesObs.frameConfig.volumeResolution > 0
          /\ sesObs.frameConfig.volumeSize > 0

\* C22 as claimed: after regenerate every new generator has acuteCount 0, no
\* centroid, and previous delta 0, so that the next physics update depends on
\* the new seeds and the settings only.
C22_NothingSurvivesRegenerate ==
    sesLast = "regenerate" =>
      \A i \in SesIds :
        /\ sesSeeds[i].acuteCount = 0
        /\ sesSeeds[i].centroid = <<>>
        /\ sesDeltas[i] = 0

\* C23 as claimed: growingCells and shrinkingCells in the stats update() returns
\* are the numbers of generators the physics step of that frame applied a
\* positive and a negative flux to.
C23_StatsCountAppliedFlux ==
    sesLast = "update" =>
      /\ sesStats.growingCells = sesObs.grew
      /\ sesStats.shrinkingCells = sesObs.shrank

\* C25 as claimed: with exactly one generator, in every frame Analysis finds no
\* junction, acuteCount stays 0 and physics displaces the generator by 0.
C25_SingleGeneratorStaysPut ==
    (sesLast = "update" /\ sesObs.ran /\ sesConfig.numPoints = 1) =>
      /\ sesObs.junctions = {}
      /\ sesSeeds[0].acuteCount = 0
      /\ sesSeeds[0].position = sesObs.from[0]

\* C27 as claimed: in every frame the positions JFA is given are the positions
\* the physics step of that frame left, on the WebGL and on the WebGPU renderer.
C27_JfaUsesPhysicsPositions ==
    (sesLast = "update" /\ sesEnabled) =>
      sesObs.uploaded = updateSeedTexture(sesSeeds)

\* ---------------------------------------------------------------------------
\* The physics shader of PureGPUSystem, one invocation per generator, after
\* the analysis and finalization passes of the same frame have written
\* acuteCounts and centroids.  Positions and velocities are in thousandths.
\* ---------------------------------------------------------------------------

MaxPureFrames == 3

\* physicsSettings of the constructor, in thousandths
PureGrowthMilli == 200
PureShrinkMilli == 100
PureMomentumMilli == 950
PureDampingMilli == 20
PureMaxSpeedMilli == 2000

\* the deltaTime update is called with, in thousandths of a second
PureDeltaTimes == {50}

\* settingsData is a Float32Array: modeMap[mode] || 0 is stored as a float, and
\* the shader reads the word as mode: u32, i.e. the bit pattern of 0.0, 1.0,
\* 2.0 and 3.0
ModeWord(mode) ==
    CASE mode = "growthOnly" -> 1065353216
      [] mode = "shrinkOnly" -> 1073741824
      [] mode = "inverse" -> 1077936128
      [] OTHER -> 0

\* the switch on settings.mode of the shader: shouldGrow and shouldShrink
PureDecision(acute, threshold, modeWord) ==
    CASE modeWord = 0 -> [shouldGrow |-> acute < threshold, shouldShrink |-> acute > threshold]
      [] modeWord = 1 -> [shouldGrow |-> acute < threshold, shouldShrink |-> FALSE]
      [] modeWord = 2 -> [shouldGrow |-> FALSE, shouldShrink |-> acute > threshold]
      [] modeWord = 3 -> [shouldGrow |-> acute > threshold, shouldShrink |-> acute < threshold]
      [] OTHER -> [shouldGrow |-> FALSE, shouldShrink |-> FALSE]

Scale(v, milli) == <<RDiv(v[1] * milli, 1000), RDiv(v[2] * milli, 1000),
                     RDiv(v[3] * milli, 1000)>>

\* force of the shader: away from the centroid to grow, toward it to shrink
PureForce(decision, direction) ==
    IF decision.shouldGrow THEN Scale(direction, -PureGrowthMilli)
    ELSE IF decision.shouldShrink THEN Scale(direction, PureShrinkMilli)
    ELSE <<0, 0, 0>>

\* velocity * momentum + force, damped, clamped to maxSpeed
PureVelocity(velocity, force) ==
    LET v == Scale(VAdd(Scale(velocity, PureMomentumMilli), force),
                   1000 - PureDampingMilli)
    IN IF VLen(v) > PureMaxSpeedMilli THEN Scale(Normalize(v), PureMaxSpeedMilli) ELSE v

\* the block of main that runs when the cell has voxels and the centroid is
\* farther than 0.001 from the seed
PureMoves(seed, cell) ==
    cell.voxelCount > 0 /\ VLen(VSub(cell.positionSum, seed.position)) > 1

\* main of the physics shader for the generator
PureStep(seed, cell, acute, st) ==
    LET decision == PureDecision(acute, st.threshold, ModeWord(st.mode))
        direction == Normalize(VSub(cell.positionSum, seed.position))
        velocity == PureVelocity(seed.velocity, PureForce(decision, direction))
    IN IF PureMoves(seed, cell)
         THEN [position |-> ClampScalar(VAdd(seed.position, Scale(velocity, st.deltaTime)),
                                        -1000, 1000),
               velocity |-> velocity]
       ELSE seed

NoPureObs == [decided |-> FALSE, shouldGrow |-> FALSE, shouldShrink |-> FALSE,
              acute |-> 0, from |-> <<0, 0, 0>>]

\* initializeGPUBuffers: the generator at a random position, at rest
PureInit ==
    /\ pureSettings \in [threshold : Thresholds, mode : ModeNames,
                         deltaTime : PureDeltaTimes]
    /\ \E layout \in InitLayouts :
          pureSeed = [position |-> InitialPosition(layout, 0), velocity |-> <<0, 0, 0>>]
    /\ pureCentroid = [positionSum |-> <<0, 0, 0>>, voxelCount |-> 0]
    /\ pureAcute = 0
    /\ purePhase = "analysis"
    /\ pureFrames = 0
    /\ pureObs = NoPureObs
    /\ EarlyIdle /\ NotPureIdle

\* what the finalization pass can leave for the generator: zero for a cell
\* without voxels, else the centroid of its voxels
PureCentroids ==
    {[positionSum |-> <<0, 0, 0>>, voxelCount |-> 0],
     [positionSum |-> CellCentroid(0), voxelCount |-> 4],
     [positionSum |-> CellCentroid(1), voxelCount |-> 2]}

\* passes 2 and 3 of update: acuteCounts and centroids of the frame
PureAnalysisPasses(acute, cell) ==
    /\ purePhase = "analysis"
    /\ pureFrames < MaxPureFrames
    /\ pureAcute' = acute
    /\ pureCentroid' = cell
    /\ purePhase' = "physics"
    /\ UNCHANGED <<pureSettings, pureSeed, pureFrames, pureObs>>
    /\ UNCHANGED <<earlyVars, notPureVars>>

\* pass 4 of update: the physics shader
PurePhysicsPass ==
    /\ purePhase = "physics"
    /\ pureSeed' = PureStep(pureSeed, pureCentroid, pureAcute, pureSettings)
    /\ pureObs' =
         LET decision == PureDecision(pureAcute, pureSettings.threshold,
                                      ModeWord(pureSettings.mode))
         IN [decided |-> PureMoves(pureSeed, pureCentroid),
             shouldGrow |-> PureMoves(pureSeed, pureCentroid) /\ decision.shouldGrow,
             shouldShrink |-> PureMoves(pureSeed, pureCentroid) /\ decision.shouldShrink,
             acute |-> pureAcute,
             from |-> pureSeed.position]
    /\ purePhase' = "analysis"
    /\ pureFrames' = pureFrames + 1
    /\ UNCHANGED <<pureSettings, pureCentroid, pureAcute>>
    /\ UNCHANGED <<earlyVars, notPureVars>>

PureNext ==
    \/ \E acute \in AcuteCounts, cell \in PureCentroids : PureAnalysisPasses(acute, cell)
    \/ PurePhysicsPass

SpecPure == PureInit /\ [][PureNext]_vars

\* C30 as claimed: the shader's decision for a generator is the mode table's
\* for its acuteCount, the threshold and the mode, and a generator that the
\* table neither grows nor shrinks does not move in the frame.
C30_ShaderFollowsModeTable ==
    pureFrames > 0 =>
      /\ pureObs.decided =>
           /\ pureObs.shouldGrow <=>
                TableGrow(pureObs.acute, pureSettings.threshold, pureSettings.mode)
           /\ pureObs.shouldShrink <=>
                TableShrink(pureObs.acute, pureSettings.threshold, pureSettings.mode)
      /\ (/\ ~TableGrow(pureObs.acute, pureSettings.threshold, pureSettings.mode)
          /\ ~TableShrink(pureObs.acute, pureSettings.threshold, pureSettings.mode)) =>
           pureSeed.position = pureObs.from

====
